---- MODULE Spec2Model ----
(***************************************************************************)
(* Signal aggregation, contradiction resolution and quality scoring of the *)
(* ai-fin4 analysis core (src/signals, src/analyzer/core.py).              *)
(*                                                                         *)
(* Confidences and quality scores are fixed-point hundredths: 0.7 is 70,   *)
(* the boosts 0.1 and 0.05 are 10 and 5.  Text fields are strings, and the *)
(* string operations of the code (slicing, "in", upper(), f-strings) are   *)
(* computed on them.                                                       *)
(***************************************************************************)
EXTENDS Integers, Sequences, FiniteSets, TLC

VARIABLES
    detectors,       \* SignalAggregator.detectors, in registration order
    df,              \* the table handed to detect(): [empty, columns]
    quality_min,     \* MultiTimeframeAnalyzer.quality_min
    last_call,       \* the operation called last, or "none"
    invoked,         \* names of the detectors whose detect() ran in the last call
    all_signals,     \* detect(): the signals collected before deduplication
    raised,          \* the exception the last call let escape, or "none"
    aggregation,     \* the AggregationResult last returned, or NoResult
    quality_result,  \* detect_signals(): the local quality_result, or NoResult
    analysis,        \* MultiTimeframeAnalyzer._result, or NoResult
    input,           \* the signal list handed to a quality operation
    args,            \* the other arguments of the last quality operation
    output,          \* the list the last quality operation returned
    scored,          \* the signal handed to score_signal, or NoResult
    quality_score,   \* the score score_signal returned, in hundredths
    group,           \* IndicatorGroup.indicators, in list order
    market_data,     \* the table handed to an indicator or a group
    result_table,    \* the table execute() returned, or NoResult
    calculated,      \* names of the indicators whose calculate() ran
    subject,         \* the signal detector under test, or NoResult
    frame,           \* the table handed to its detect(): one record per bar
    detected,        \* the signals its detect() returned
    closes,          \* the Close column of the price series, oldest bar first
    volumes,         \* its Volume column
    params,          \* the arguments of the last constructor call, or NoResult
    _INDICATORS,     \* IndicatorRegistry._INDICATORS: key -> class
    _global_cache,   \* analyzer.pipeline._global_cache, or NoResult for None
    analyses,        \* per analysis: what its own calls returned
    enriched,        \* the rows execute() returned, or NoResult
    _data,           \* MultiTimeframeAnalyzer._data: rows, or NoResult for None
    trace,           \* the public calls made so far and what each raised
    steps,           \* AnalysisPipeline.steps: the StepResults recorded so far
    _ai_analyzer,    \* AnalysisPipeline._ai_analyzer, or NoResult for None
    _ai_result,      \* AnalysisPipeline._ai_result, or NoResult for None
    position,        \* where run() stands: the step it is about to execute
    returned,        \* what run() returned, or NoResult
    calls,           \* analyze_multiple: per listed symbol, its analyze_symbol call
    results,         \* analyze_multiple: the results dict
    cache,           \* YFinanceProvider.cache: key -> (data, cached_at)
    request,         \* the arguments of the last call made to the provider
    pending,         \* whether _fetch_with_retry is between two attempts
    attempt,         \* _fetch_with_retry: the attempts made so far
    last_error,      \* _fetch_with_retry: str(e) of the last attempt, or "none"
    clock,           \* datetime.now()
    response,        \* the data fetch() returned, or NoResult
    _cache           \* AnalysisCache._cache: (key, timestamp, result) in insertion order

aggVars == <<detectors, df, quality_min, last_call, invoked, all_signals, raised,
             aggregation, quality_result, analysis>>

qualVars == <<input, args, output>>

scoreVars == <<scored, quality_score>>

indVars == <<group, market_data, result_table, calculated>>

detVars == <<subject, frame, detected>>

seriesVars == <<closes, volumes>>

constructVars == <<params>>

sharedVars == <<_INDICATORS, _global_cache, analyses>>

enrichVars == <<enriched>>

analyzerVars == <<_data, trace>>

pipelineVars == <<steps, _ai_analyzer, _ai_result, position, returned>>

multiVars == <<calls, results>>

providerVars == <<cache, request, pending, attempt, last_error, clock, response>>

cacheVars == <<_cache>>

runVars == <<enrichVars, analyzerVars,
             pipelineVars,
             multiVars,
             providerVars,
             cacheVars>>

\* the variables of the specifications that follow the first three
laterVars == <<indVars, detVars, seriesVars, constructVars, sharedVars,
               runVars>>

vars == <<aggVars, qualVars, scoreVars, laterVars>>

NoResult == [none |-> TRUE]

-----------------------------------------------------------------------------
(* Python string operations *)

Min(a, b) == IF a < b THEN a ELSE b

\* s[:n]
Prefix(s, n) == SubSeq(s, 1, Min(n, Len(s)))

\* sub in s
Contains(s, sub) ==
    \E i \in 1..(Len(s) - Len(sub) + 1) : SubSeq(s, i, i + Len(sub) - 1) = sub

\* the letters upper() changes
ToUpper ==
    [a |-> "A", b |-> "B", c |-> "C", d |-> "D", e |-> "E", f |-> "F",
     g |-> "G", h |-> "H", i |-> "I", j |-> "J", k |-> "K", l |-> "L",
     m |-> "M", n |-> "N", o |-> "O", p |-> "P", q |-> "Q", r |-> "R",
     s |-> "S", t |-> "T", u |-> "U", v |-> "V", w |-> "W", x |-> "X",
     y |-> "Y", z |-> "Z"]

UpperChar(c) == IF c \in DOMAIN ToUpper THEN ToUpper[c] ELSE c

RECURSIVE UpperOf(_)
UpperOf(s) ==
    IF Len(s) = 0 THEN ""
    ELSE UpperChar(SubSeq(s, 1, 1)) \o UpperOf(SubSeq(s, 2, Len(s)))

\* upper() of the strength labels the model uses, computed once
UpperTable ==
    [s \in {"BULLISH", "BEARISH", "STRONG BULLISH", "STRONG BEARISH", "NEUTRAL",
             "EXTREME BULLISH", "EXTREME BEARISH", "TRENDING", "SIGNIFICANT",
             "MODERATE", "WEAK", "CROSS_BULLISH", "BULLISH/BEARISH",
             "STRONG TREND", ""}
        |-> UpperOf(s)]

\* s.upper()
Upper(s) == IF s \in DOMAIN UpperTable THEN UpperTable[s] ELSE UpperOf(s)

-----------------------------------------------------------------------------
(* signals/base.py: SignalStrength, Signal *)

BULLISH == "BULLISH"
BEARISH == "BEARISH"
STRONG_BULLISH == "STRONG BULLISH"
STRONG_BEARISH == "STRONG BEARISH"
NEUTRAL == "NEUTRAL"
EXTREME_BULLISH == "EXTREME BULLISH"
EXTREME_BEARISH == "EXTREME BEARISH"
TRENDING == "TRENDING"
SIGNIFICANT == "SIGNIFICANT"
MODERATE == "MODERATE"
WEAK == "WEAK"

SignalStrength_is_bullish(strength) == Contains(Upper(strength), "BULLISH")
SignalStrength_is_bearish(strength) == Contains(Upper(strength), "BEARISH")
SignalStrength_is_neutral(strength) == strength = NEUTRAL

\* A Signal: value is "None", "float" or "text" (an object float() rejects);
\* details is whether the details map is non-empty; "" as trading_implication
\* stands for None.
Signal(name, category, strength, description, value, conf, details, impl) ==
    [name |-> name, category |-> category, strength |-> strength,
     description |-> description, timeframe |-> "unknown", value |-> value,
     confidence |-> conf, details |-> details,
     trading_implication |-> impl]

is_bullish(s) == SignalStrength_is_bullish(s.strength)
is_bearish(s) == SignalStrength_is_bearish(s.strength)
is_neutral(s) == SignalStrength_is_neutral(s.strength)

-----------------------------------------------------------------------------
(* Python list helpers *)

\* the list [f[1], ..., f[n]] of a function on 1..n, built once
List(f) == f \o <<>>

\* sorted(s, key=..., reverse=reverse), keys[i] being the key of s[i]: the sort
\* is stable, also when reversed.
\* An element goes behind the elements whose key sorts before its own and
\* behind the earlier elements of equal key.
Sorted(s, keys, reverse) ==
    LET n == Len(s)
        Before(j, i) ==
            \/ (IF reverse THEN keys[j] > keys[i] ELSE keys[j] < keys[i])
            \/ (keys[j] = keys[i] /\ j < i)
        pos == List([i \in 1..n |-> 1 + Cardinality({j \in 1..n : Before(j, i)})])
    IN  List([p \in 1..n |-> s[CHOOSE i \in 1..n : pos[i] = p]])

RECURSIVE Concat(_)
\* the concatenation of a sequence of lists
Concat(ss) == IF ss = <<>> THEN <<>> ELSE Head(ss) \o Concat(Tail(ss))

-----------------------------------------------------------------------------
(* signals/base.py: SignalFilter, SignalSorter *)

SignalFilter_by_bullish(signals) == SelectSeq(signals, is_bullish)
SignalFilter_by_bearish(signals) == SelectSeq(signals, is_bearish)
SignalFilter_by_confidence(signals, minc) ==
    LET Keep(s) == s.confidence >= minc IN SelectSeq(signals, Keep)

UnrankedOrder == 99

strength_order(strength) ==
    CASE strength = "EXTREME BULLISH" -> 0
      [] strength = "STRONG BULLISH" -> 1
      [] strength = "BULLISH" -> 2
      [] strength = "MODERATE" -> 3
      [] strength = "NEUTRAL" -> 4
      [] strength = "BEARISH" -> 5
      [] strength = "STRONG BEARISH" -> 6
      [] strength = "EXTREME BEARISH" -> 7
      [] OTHER -> UnrankedOrder

SignalSorter_by_strength(signals) ==
    Sorted(signals,
           List([i \in 1..Len(signals) |-> strength_order(signals[i].strength)]),
           FALSE)

Confidences(signals) == List([i \in 1..Len(signals) |-> signals[i].confidence])

\* a sort that reverses an ascending sort: equal confidences change places
SignalSorter_by_confidence_reversing(signals, ascending) ==
    LET up == Sorted(signals, Confidences(signals), FALSE)
    IN  IF ascending THEN up
        ELSE List([i \in 1..Len(up) |-> up[Len(up) + 1 - i]])

SignalSorter_by_confidence(signals, ascending) ==
    Sorted(signals, Confidences(signals), ~ascending)

\* a dict of lists, keyed in first-occurrence order: the groups as a function
GroupBy(signals, keys) ==
    LET indices == List([i \in 1..Len(signals) |-> i])
    IN  [k \in {keys[i] : i \in 1..Len(signals)} |->
            LET Keep(i) == keys[i] = k
                members == SelectSeq(indices, Keep)
            IN  List([j \in 1..Len(members) |-> signals[members[j]]])]

SignalSorter_by_category(signals) ==
    GroupBy(signals, List([i \in 1..Len(signals) |-> signals[i].category]))

-----------------------------------------------------------------------------
(* signals/aggregator.py: SignalAggregator *)

NamePrefixLen == 20

\* f"{signal.category}_{signal.strength}_{signal.name[:20]}"
signature(signal) ==
    signal.category \o "_" \o signal.strength \o "_"
        \o Prefix(signal.name, NamePrefixLen)

RECURSIVE DeduplicateLoop(_, _, _)
DeduplicateLoop(signals, seen, unique) ==
    IF signals = <<>> THEN unique
    ELSE LET sig == signature(Head(signals))
         IN  IF sig \notin seen
             THEN DeduplicateLoop(Tail(signals), seen \cup {sig},
                                  Append(unique, Head(signals)))
             ELSE DeduplicateLoop(Tail(signals), seen, unique)

\* a loop that forgets a signature when it meets it again
RECURSIVE DeduplicateLoopToggling(_, _, _)
DeduplicateLoopToggling(signals, seen, unique) ==
    IF signals = <<>> THEN unique
    ELSE LET s == Head(signals)
         IN  IF signature(s) \notin seen
             THEN DeduplicateLoopToggling(Tail(signals), seen \cup {signature(s)},
                                          Append(unique, s))
             ELSE DeduplicateLoopToggling(Tail(signals), seen \ {signature(s)},
                                          unique)

_deduplicate_toggling(signals) == DeduplicateLoopToggling(signals, {}, <<>>)

_deduplicate(signals) == DeduplicateLoop(signals, {}, <<>>)

_build_result(signals, duplicates_removed) ==
    LET bullish == Len(SignalFilter_by_bullish(signals))
        bearish == Len(SignalFilter_by_bearish(signals))
        neutral == Len(signals) - bullish - bearish
        strengths == List([i \in 1..Len(signals) |-> signals[i].strength])
    IN  [signals |-> signals,
         signal_count |-> Len(signals),
         bullish_count |-> bullish,
         bearish_count |-> bearish,
         neutral_count |-> neutral,
         by_category |-> SignalSorter_by_category(signals),
         by_strength |-> GroupBy(signals, strengths),
         duplicates_removed |-> duplicates_removed]

(* signals/base.py: SignalDetector *)

BaseColumns == {"Open", "High", "Low", "Close", "Volume"}

_get_required_columns(detector) == BaseColumns \cup detector.required_indicators

\* "none", or the exception validate_input raises
validate_input(detector, table) ==
    IF table.empty THEN "SignalDetectionError"
    ELSE IF _get_required_columns(detector) \ table.columns # {}
         THEN "SignalDetectionError"
         ELSE "none"

\* detect() of a detector: the signals it returns, or the exception it raises
detect(detector, table) ==
    IF detector.raises = "none"
    THEN [exc |-> "none", signals |-> detector.emits]
    ELSE [exc |-> detector.raises, signals |-> <<>>]

\* execute(): SignalDetectionError passes, any other exception is wrapped in one
execute(detector, table) ==
    IF validate_input(detector, table) # "none"
    THEN [exc |-> validate_input(detector, table), signals |-> <<>>,
          called |-> FALSE]
    ELSE LET r == detect(detector, table)
         IN  IF r.exc = "none"
             THEN [exc |-> "none", signals |-> r.signals, called |-> TRUE]
             ELSE [exc |-> "SignalDetectionError", signals |-> <<>>,
                   called |-> TRUE]

\* a loop without the except clauses
LoopCatchesNothing(exc) == FALSE

\* the except clauses of the detector loop: SignalDetectionError, then Exception
LoopCatches(exc) == exc \in {"SignalDetectionError", "Exception"}

RECURSIVE DetectorLoop(_, _, _)
\* for detector in self.detectors: try ... except ...
DetectorLoop(ds, table, acc) ==
    IF ds = <<>> THEN acc
    ELSE LET d == Head(ds)
             r == execute(d, table)
             ran == IF r.called THEN Append(acc.invoked, d.name) ELSE acc.invoked
         IN  IF r.exc = "none"
             THEN DetectorLoop(Tail(ds), table,
                      [acc EXCEPT !.all_signals = @ \o r.signals,
                                  !.detector_count = @ + 1,
                                  !.invoked = ran])
             ELSE IF LoopCatches(r.exc)
             THEN DetectorLoop(Tail(ds), table,
                      [acc EXCEPT !.errors = Append(@, <<d.name, r.exc>>),
                                  !.invoked = ran])
             ELSE [acc EXCEPT !.raised = r.exc, !.invoked = ran]

\* object.__setattr__(signal, "timeframe", self.timeframe) for every signal
StampTimeframe(signals, timeframe) ==
    List([i \in 1..Len(signals) |-> [signals[i] EXCEPT !.timeframe = timeframe]])

\* SignalAggregator.detect: what it leaves behind, result included
SignalAggregator_detect(ds, timeframe, table) ==
    LET acc == DetectorLoop(ds, table,
                   [all_signals |-> <<>>, detector_count |-> 0,
                    errors |-> <<>>, invoked |-> <<>>, raised |-> "none"])
        stamped == StampTimeframe(acc.all_signals, timeframe)
        unique_signals == _deduplicate(stamped)
        duplicates_removed == Len(stamped) - Len(unique_signals)
        sorted_signals ==
            SignalSorter_by_confidence(
                SignalSorter_by_strength(unique_signals), FALSE)
    IN  [invoked |-> acc.invoked,
         all_signals |-> stamped,
         raised |-> acc.raised,
         result |-> IF acc.raised # "none" THEN NoResult
                    ELSE _build_result(sorted_signals, duplicates_removed)]

\* FilteredSignalAggregator.detect
FilteredSignalAggregator_detect(ds, timeframe, minc, excl, table) ==
    LET run == SignalAggregator_detect(ds, timeframe, table)
        by_conf == IF minc > 0
                   THEN SignalFilter_by_confidence(run.result.signals, minc)
                   ELSE run.result.signals
        NotNeutral(s) == ~is_neutral(s)
        filtered_signals == IF excl THEN SelectSeq(by_conf, NotNeutral) ELSE by_conf
    IN  IF run.raised # "none" THEN run
        ELSE [run EXCEPT !.result =
                 _build_result(filtered_signals, run.result.duplicates_removed)]

-----------------------------------------------------------------------------
(* signals/validator.py: SignalValidator *)

VALID_STRENGTHS ==
    {BULLISH, BEARISH, STRONG_BULLISH, STRONG_BEARISH, EXTREME_BULLISH,
     EXTREME_BEARISH, NEUTRAL, MODERATE, SIGNIFICANT, WEAK, TRENDING}

MaxConfidence == 100

VALID_CATEGORIES ==
    {"MA_CROSS", "MA_POSITION", "MA_RIBBON", "RSI", "MACD", "STOCHASTIC", "ATR",
     "ADX", "VOLUME", "FIBONACCI", "PRICE_ACTION", "VWAP"}

\* a validation that also wants the category listed
validate_listed_category(signal) ==
    /\ signal.name # "" /\ signal.category # "" /\ signal.strength # ""
    /\ signal.description # ""
    /\ signal.category \in VALID_CATEGORIES
    /\ signal.strength \in VALID_STRENGTHS
    /\ 0 <= signal.confidence /\ signal.confidence <= MaxConfidence
    /\ signal.value \in {"None", "float"}

\* validate(signal)[0]
validate(signal) ==
    IF signal.name = "" THEN FALSE
    ELSE IF signal.category = "" THEN FALSE
    ELSE IF signal.strength = "" THEN FALSE
    ELSE IF signal.description = "" THEN FALSE
    ELSE IF signal.strength \notin VALID_STRENGTHS THEN FALSE
    ELSE IF ~(0 <= signal.confidence /\ signal.confidence <= MaxConfidence)
         THEN FALSE
    ELSE IF signal.value # "None" /\ signal.value # "float" THEN FALSE
    ELSE TRUE

\* validate_batch(signals): <<valid, invalid_count>>
validate_batch(signals) ==
    LET valid == SelectSeq(signals, validate)
    IN  <<valid, Len(signals) - Len(valid)>>

(* signals/validator.py: ContradictionDetector *)

EXCLUSIVE_CATEGORIES == {"MA_CROSS", "MACD", "PRICE_ACTION"}

\* the (bullish index, bearish index) pairs of the contradictions list
detect_contradictions(signals) ==
    LET InCat(c) == {i \in 1..Len(signals) : signals[i].category = c}
        bullish(c) == {i \in InCat(c) : SignalStrength_is_bullish(signals[i].strength)}
        bearish(c) == {i \in InCat(c) : SignalStrength_is_bearish(signals[i].strength)}
    IN  UNION {bullish(c) \X bearish(c) : c \in EXCLUSIVE_CATEGORIES}

\* a comparison that marks the bullish member on equal confidences
MarkedOfStrict(signals, pair) ==
    IF signals[pair[1]].confidence > signals[pair[2]].confidence
    THEN pair[2] ELSE pair[1]

\* of a contradiction, the index marked for removal
MarkedOf(signals, pair) ==
    IF signals[pair[1]].confidence >= signals[pair[2]].confidence
    THEN pair[2] ELSE pair[1]

\* [s for i, s in enumerate(signals) if i not in to_remove]
Without(signals, to_remove) ==
    LET enumerated == List([i \in 1..Len(signals) |-> <<i, signals[i]>>])
        Keep(e) == e[1] \notin to_remove
        kept == SelectSeq(enumerated, Keep)
    IN  List([k \in 1..Len(kept) |-> kept[k][2]])

resolve_contradictions(signals, resolution) ==
    IF resolution = "keep_all" THEN signals
    ELSE LET contradictions == detect_contradictions(signals)
             to_remove == {MarkedOf(signals, p) : p \in contradictions}
         IN  IF contradictions = {} THEN signals
             ELSE Without(signals, to_remove)

(* signals/validator.py: QualityScorer *)

Max(a, b) == IF a > b THEN a ELSE b

StrongBoost == 10
DetailsBoost == 5
ImplicationBoost == 5
NeutralPenalty == 10

\* the sum of the adjustments, clamped once
score_signal_single_clamp(signal) ==
    LET strong == IF /\ (SignalStrength_is_bullish(signal.strength)
                          \/ SignalStrength_is_bearish(signal.strength))
                     /\ (Contains(signal.strength, "STRONG")
                          \/ Contains(signal.strength, "EXTREME"))
                  THEN StrongBoost ELSE 0
        det == IF signal.details THEN DetailsBoost ELSE 0
        imp == IF signal.trading_implication # "" THEN ImplicationBoost ELSE 0
        neu == IF is_neutral(signal) THEN NeutralPenalty ELSE 0
    IN  Max(0, Min(MaxConfidence, signal.confidence + strong + det + imp - neu))

score_signal(signal) ==
    LET s0 == signal.confidence
        s1 == IF /\ (SignalStrength_is_bullish(signal.strength)
                      \/ SignalStrength_is_bearish(signal.strength))
                 /\ (Contains(signal.strength, "STRONG")
                      \/ Contains(signal.strength, "EXTREME"))
              THEN Min(MaxConfidence, s0 + StrongBoost) ELSE s0
        s2 == IF signal.details
              THEN Min(MaxConfidence, s1 + DetailsBoost) ELSE s1
        s3 == IF signal.trading_implication # ""
              THEN Min(MaxConfidence, s2 + ImplicationBoost) ELSE s2
        s4 == IF is_neutral(signal) THEN Max(0, s3 - NeutralPenalty) ELSE s3
    IN  s4

\* a filter that keeps the scores up to the threshold
filter_by_quality_below(signals, min_quality) ==
    LET Keep(s) == score_signal(s) <= min_quality IN SelectSeq(signals, Keep)

filter_by_quality(signals, min_quality) ==
    LET Keep(s) == score_signal(s) >= min_quality IN SelectSeq(signals, Keep)

(* signals/validator.py: SignalQualityPipeline *)

DefaultMinQuality == 30

\* SignalQualityPipeline(): the constructor's defaults
DefaultPipeline ==
    [validate |-> TRUE, resolve_contradictions |-> TRUE,
     score_quality |-> TRUE, min_quality |-> DefaultMinQuality]

process(pipeline, signals) ==
    LET r1 == IF pipeline.validate THEN validate_batch(signals)[1] ELSE signals
        r2 == IF pipeline.resolve_contradictions
              THEN resolve_contradictions(r1, "remove_lower_confidence") ELSE r1
        r3 == IF pipeline.score_quality
              THEN filter_by_quality(r2, pipeline.min_quality) ELSE r2
    IN  r3

(* analyzer/core.py: MultiTimeframeAnalyzer *)

\* detect_signals(): self._signals, the local quality_result, self._result.
\* The except clause builds AnalyzerError(..., step="detect_signals"), and
\* AnalyzerError.__init__ takes no step argument: the call raises TypeError.
detect_signals(ds, timeframe, table, quality_pipeline) ==
    LET run == SignalAggregator_detect(ds, timeframe, table)
        quality == process(quality_pipeline, run.result.signals)
    IN  IF run.raised # "none"
        THEN [run |-> run, quality_result |-> NoResult, result |-> NoResult,
              raised |-> "TypeError"]
        ELSE [run |-> run, quality_result |-> quality,
              result |-> [signals |-> run.result], raised |-> "none"]

-----------------------------------------------------------------------------
(* The detectors and tables of the model *)

MaxDetectors == 3

Timeframe == "1d"

MaBullCross ==
    Signal("10/20 MA BULL CROSS", "MA_CROSS", BULLISH,
           "10 MA crossed above 20 MA", "float", 70, FALSE,
           "Uptrend forming; consider long entries")
MaBearCross ==
    Signal("5/10 MA BEAR CROSS", "MA_CROSS", BEARISH,
           "5 MA crossed below 10 MA", "float", 70, FALSE,
           "Downtrend forming; consider short entries or exits")
MacdBearCross ==
    Signal("MACD BEAR CROSS", "MACD", STRONG_BEARISH,
           "MACD crossed below signal line", "float", 80, TRUE,
           "Strong sell signal")
MacdZeroUp ==
    Signal("MACD ZERO CROSS UP", "MACD", MODERATE,
           "MACD crossed above zero line", "float", 70, FALSE, "Momentum up")
RsiNeutral ==
    Signal("RSI NEUTRAL", "RSI", NEUTRAL, "RSI in neutral zone", "float", 50,
           FALSE, "")
StochOversold ==
    Signal("STOCHASTIC OVERSOLD", "STOCHASTIC", BULLISH,
           "Stochastic %K below 20", "float", 65, FALSE, "Potential bounce")
StochCrossAbove ==
    Signal("STOCHASTIC %K CROSS ABOVE %D", "STOCHASTIC", BULLISH,
           "%K crossed above %D", "float", 70, FALSE, "Momentum shift up")
\* signals of a detector defined outside the repository: a category and a
\* strength of its own, a strength label naming both directions, and a name
\* that differs from StochCrossAbove's after its 20th character only
CustomMaSignal ==
    Signal("10/20 MA BULL CROSS", "MA", "CROSS_BULLISH", "custom", "None", 60,
           FALSE, "")
CustomDivergence ==
    Signal("DIVERGENCE", "RSI", "BULLISH/BEARISH", "custom", "None", 60,
           FALSE, "")
CustomStoch ==
    Signal("STOCHASTIC %K CROSS AT 20", "STOCHASTIC", BULLISH, "custom",
           "None", 60, FALSE, "")

Detector(name, required, raises, emits) ==
    [name |-> name, required_indicators |-> required, raises |-> raises,
     emits |-> emits]

DetectorPool ==
    { Detector("MA Crossover (10/20)", {"SMA_10", "SMA_20"}, "none",
               <<MaBullCross>>),
      Detector("MA Crossover (5/10)", {"SMA_5", "SMA_10"}, "none",
               <<MaBearCross>>),
      Detector("MACD", {"MACD", "MACD_Signal", "MACD_Histogram"}, "none",
               <<MacdBearCross, MacdZeroUp>>),
      Detector("RSI (14)", {"RSI_14"}, "none", <<RsiNeutral>>),
      Detector("Stochastic (14)", {"Stoch_K", "Stoch_D"}, "none",
               <<StochOversold, StochCrossAbove>>),
      Detector("Broken", {}, "Exception", <<>>),
      Detector("Custom", {}, "none",
               <<CustomMaSignal, CustomDivergence, CustomStoch>>) }

IndicatorColumns ==
    {"SMA_5", "SMA_10", "SMA_20", "MACD", "MACD_Signal", "MACD_Histogram",
     "RSI_14", "Stoch_K", "Stoch_D"}

Tables ==
    { [empty |-> FALSE, columns |-> BaseColumns \cup IndicatorColumns],
      \* partial enrichment: the indicator writing SMA_5 failed
      [empty |-> FALSE, columns |-> BaseColumns \cup (IndicatorColumns \ {"SMA_5"})],
      [empty |-> FALSE, columns |-> (BaseColumns \ {"Volume"}) \cup IndicatorColumns],
      [empty |-> TRUE, columns |-> BaseColumns \cup IndicatorColumns] }

QualityMins == {60}
MinConfidences == {0, 70}

-----------------------------------------------------------------------------
(* The aggregator and the analyzer as a state machine *)

\* no quality operation has been called
QualityIdle ==
    /\ input = <<>>
    /\ args = NoResult
    /\ output = <<>>

\* IndicatorRegistry._INDICATORS as the class body defines it
BuiltinIndicators ==
    [sma |-> "SimpleMovingAverage", ema |-> "ExponentialMovingAverage",
     ma_cross |-> "MovingAverageCrossover", ma_ribbon |-> "MovingAverageRibbon",
     atr |-> "AverageTrueRange", adx |-> "AverageDirectionalIndex",
     rsi |-> "RelativeStrengthIndex", macd |-> "MACD",
     stoch |-> "StochasticOscillator", obv |-> "OnBalanceVolume",
     vol_ma |-> "VolumeMovingAverage"]

\* no indicator has been executed
IndicatorsIdle ==
    /\ group = <<>>
    /\ market_data = NoResult
    /\ result_table = NoResult
    /\ calculated = <<>>

\* no indicator-based detector has been built
DetectorsIdle ==
    /\ subject = NoResult
    /\ frame = <<>>
    /\ detected = <<>>

\* no price series has been loaded
SeriesIdle == closes = <<>> /\ volumes = <<>>

\* no constructor call is on record
ConstructIdle == params = NoResult

\* the registry as the class statement leaves it; no cache, no analysis
SharedIdle ==
    /\ _INDICATORS = BuiltinIndicators
    /\ _global_cache = NoResult
    /\ analyses = <<>>

EnrichIdle == enriched = NoResult

AnalyzerIdle ==
    /\ _data = NoResult
    /\ trace = <<>>

PipelineIdle ==
    /\ steps = <<>>
    /\ _ai_analyzer = NoResult
    /\ _ai_result = NoResult
    /\ position = "idle"
    /\ returned = NoResult

MultiIdle ==
    /\ calls = <<>>
    /\ results = <<>>

ProviderIdle ==
    /\ cache = <<>>
    /\ request = NoResult
    /\ pending = FALSE
    /\ attempt = 0
    /\ last_error = "none"
    /\ clock = 0
    /\ response = NoResult

CacheIdle ==
    /\ _cache = <<>>

\* nothing has been run
RunIdle ==
    /\ CacheIdle
    /\ ProviderIdle
    /\ MultiIdle
    /\ PipelineIdle
    /\ EnrichIdle
    /\ AnalyzerIdle

LaterIdle ==
    /\ IndicatorsIdle /\ DetectorsIdle /\ SeriesIdle /\ ConstructIdle
    /\ SharedIdle /\ RunIdle

\* score_signal has not been called
ScoreIdle ==
    /\ scored = NoResult
    /\ quality_score = 0

Init ==
    /\ detectors = <<>>
    /\ df \in Tables
    /\ quality_min \in QualityMins
    /\ last_call = "none"
    /\ invoked = <<>>
    /\ all_signals = <<>>
    /\ raised = "none"
    /\ aggregation = NoResult
    /\ quality_result = NoResult
    /\ analysis = NoResult
    /\ QualityIdle
    /\ ScoreIdle
    /\ LaterIdle

\* SignalAggregator.add_detector; the detectors are registered when the
\* aggregator is built (analyzer/core.py, _create_signal_aggregator), before
\* the first detect()
add_detector(d) ==
    /\ Len(detectors) < MaxDetectors
    /\ aggregation = NoResult
    /\ detectors' = Append(detectors, d)
    /\ UNCHANGED <<df, quality_min, last_call, invoked, all_signals, raised,
                   aggregation, quality_result, analysis, qualVars, scoreVars, laterVars>>

\* SignalAggregator.detect(df)
AggregatorDetect ==
    \E run \in {SignalAggregator_detect(detectors, Timeframe, df)} :
        /\ last_call' = "SignalAggregator.detect"
        /\ invoked' = run.invoked
        /\ all_signals' = run.all_signals
        /\ raised' = run.raised
        /\ aggregation' = run.result
        /\ UNCHANGED <<detectors, df, quality_min, quality_result, analysis,
                       qualVars, scoreVars, laterVars>>

\* FilteredSignalAggregator(timeframe, minc, excl).detect(df)
FilteredDetect(minc, excl) ==
    \E run \in {FilteredSignalAggregator_detect(detectors, Timeframe, minc,
                                                excl, df)} :
        /\ last_call' = "FilteredSignalAggregator.detect"
        /\ invoked' = run.invoked
        /\ all_signals' = run.all_signals
        /\ raised' = run.raised
        /\ aggregation' = run.result
        /\ UNCHANGED <<detectors, df, quality_min, quality_result, analysis,
                       qualVars, scoreVars, laterVars>>

\* MultiTimeframeAnalyzer.detect_signals()
DetectSignals ==
    \E r \in {detect_signals(detectors, Timeframe, df, DefaultPipeline)} :
        /\ last_call' = "detect_signals"
        /\ invoked' = r.run.invoked
        /\ all_signals' = r.run.all_signals
        /\ raised' = r.raised
        /\ aggregation' = r.run.result
        /\ quality_result' = r.quality_result
        /\ analysis' = IF r.raised = "none" THEN r.result ELSE analysis
        /\ UNCHANGED <<detectors, df, quality_min, qualVars, scoreVars, laterVars>>

Next ==
    \/ \E d \in DetectorPool : add_detector(d)
    \/ AggregatorDetect
    \/ \E minc \in MinConfidences, excl \in BOOLEAN : FilteredDetect(minc, excl)
    \/ DetectSignals

Spec == Init /\ [][Next]_vars

-----------------------------------------------------------------------------
(* Properties of the aggregator and the analyzer *)

Returned == last_call # "none" /\ aggregation # NoResult

\* the index of the first occurrence of x in seq
FirstIndex(seq, x) == CHOOSE k \in 1..Len(seq) :
                          seq[k] = x /\ \A j \in 1..(k - 1) : seq[j] # x

\* C1: in the list SignalAggregator.detect returns, a signal listed before
\* another has a strength rank that is not larger, and of two signals of equal
\* rank the one listed first has a confidence that is not smaller.
C1_StrengthRankThenConfidence ==
    last_call = "SignalAggregator.detect" =>
        \A i, j \in 1..Len(aggregation.signals) :
            i < j =>
                LET a == aggregation.signals[i]
                    b == aggregation.signals[j]
                IN  /\ strength_order(a.strength) <= strength_order(b.strength)
                    /\ strength_order(a.strength) = strength_order(b.strength)
                           => a.confidence >= b.confidence

\* C2: the signals of the AnalysisResult that detect_signals stores are the
\* quality pipeline's output on the aggregator's signals, the pipeline filtering
\* at the analyzer's quality_min: none is invalid, none scores below quality_min.
C2_ResultIsQualityControlled ==
    (last_call = "detect_signals" /\ analysis # NoResult) =>
        /\ analysis.signals.signals =
               process([DefaultPipeline EXCEPT !.min_quality = quality_min],
                       aggregation.signals)
        /\ \A i \in 1..Len(analysis.signals.signals) :
               /\ validate(analysis.signals.signals[i])
               /\ score_signal(analysis.signals.signals[i]) >= quality_min

Triple(s) == <<s.category, s.strength, Prefix(s.name, NamePrefixLen)>>

\* the signals that no earlier signal of the list shares its triple with
FirstOfEachTriple(signals) ==
    Without(signals,
            {k \in 1..Len(signals) :
                \E j \in 1..(k - 1) : Triple(signals[j]) = Triple(signals[k])})

\* C3: _deduplicate keeps, in order, exactly the first signal of every triple
\* (category, strength, first 20 characters of the name) of its input, and
\* duplicates_removed is the number of signals it drops.
C3_DedupKeepsFirstOfEachTriple ==
    last_call = "SignalAggregator.detect" =>
        /\ _deduplicate(all_signals) = FirstOfEachTriple(all_signals)
        /\ aggregation.duplicates_removed
               = Len(all_signals) - Len(FirstOfEachTriple(all_signals))

\* C5: in the aggregator's output two signals of the same strength stand in
\* descending confidence order, and two of the same strength and confidence in
\* the order in which the detectors emitted them.
C5_StableWithinStrength ==
    Returned =>
        \A i, j \in 1..Len(aggregation.signals) :
            LET a == aggregation.signals[i]
                b == aggregation.signals[j]
            IN  (i < j /\ a.strength = b.strength) =>
                    /\ a.confidence >= b.confidence
                    /\ a.confidence = b.confidence
                           => FirstIndex(all_signals, a) < FirstIndex(all_signals, b)

\* two signals of one strength and confidence and two of one strength and
\* different confidences have been sorted
C5_Witness ==
    /\ last_call = "SignalAggregator.detect"
    /\ \E i, j \in 1..Len(aggregation.signals) :
           /\ i < j
           /\ aggregation.signals[i].strength = aggregation.signals[j].strength
           /\ aggregation.signals[i].confidence = aggregation.signals[j].confidence
    /\ \E i, j \in 1..Len(aggregation.signals) :
           /\ i < j
           /\ aggregation.signals[i].strength = aggregation.signals[j].strength
           /\ aggregation.signals[i].confidence > aggregation.signals[j].confidence
           /\ FirstIndex(all_signals, aggregation.signals[i])
                  > FirstIndex(all_signals, aggregation.signals[j])

\* groups holds, under every key, the signals of that key in list order
GroupsPartition(groups, signals, keys) ==
    /\ DOMAIN groups = {keys[i] : i \in 1..Len(signals)}
    /\ \A k \in DOMAIN groups :
           groups[k] = Without(signals, {i \in 1..Len(signals) : keys[i] # k})

\* C6: an AggregationResult agrees with its signal list: signal_count is the
\* length, every signal is counted once, as bullish (its strength contains
\* BULLISH), as bearish (it contains BEARISH) or as neutral, so that the counts
\* are not negative and sum to signal_count, and by_category and by_strength
\* each hold every signal in exactly one group.
C6_ResultConsistent ==
    Returned =>
        LET r == aggregation
            all == 1..Len(r.signals)
            bull == {i \in all : Contains(r.signals[i].strength, "BULLISH")}
            bear == {i \in all : Contains(r.signals[i].strength, "BEARISH")}
        IN  /\ r.signal_count = Len(r.signals)
            /\ r.bullish_count >= 0 /\ r.bearish_count >= 0 /\ r.neutral_count >= 0
            /\ r.bullish_count + r.bearish_count + r.neutral_count = r.signal_count
            /\ r.bullish_count = Cardinality(bull)
            /\ r.bearish_count = Cardinality(bear)
            /\ r.neutral_count = Cardinality(all \ (bull \cup bear))
            /\ GroupsPartition(r.by_category, r.signals,
                               [i \in all |-> r.signals[i].category])
            /\ GroupsPartition(r.by_strength, r.signals,
                               [i \in all |-> r.signals[i].strength])

\* the detector finds the table non-empty and every column it needs present
InputOk(d) ==
    /\ ~df.empty
    /\ BaseColumns \subseteq df.columns
    /\ d.required_indicators \subseteq df.columns

\* C7: detect() raises nothing; it invokes detect() of exactly the detectors
\* whose input validation passes, in registration order, and collects exactly
\* the signals of those among them that do not raise, in that order.
C7_DetectorFailuresIsolated ==
    last_call # "none" =>
        LET NameOf(d) == d.name
            Emitted(d) == IF d.raises = "none" THEN d.emits ELSE <<>>
            valid == SelectSeq(detectors, InputOk)
        IN  /\ raised = "none"
            /\ aggregation # NoResult
            /\ invoked = List([i \in 1..Len(valid) |-> NameOf(valid[i])])
            /\ all_signals =
                   StampTimeframe(
                       Concat(List([i \in 1..Len(valid) |-> Emitted(valid[i])])),
                       Timeframe)

\* a detector skipped for a missing column and one whose detect() raises are
\* both followed by a detector that ran and whose signals were collected
C7_Witness ==
    /\ last_call = "SignalAggregator.detect"
    /\ \E i, j, k \in 1..Len(detectors) :
           /\ i < k /\ j < k
           /\ ~df.empty /\ ~InputOk(detectors[i])
           /\ InputOk(detectors[j]) /\ detectors[j].raises # "none"
           /\ InputOk(detectors[k]) /\ detectors[k].raises = "none"
           /\ detectors[k].emits # <<>>
           /\ invoked[Len(invoked)] = detectors[k].name
           /\ Len(all_signals) = Len(detectors[k].emits)

-----------------------------------------------------------------------------
(* The list operations of the aggregator and of the quality pipeline, each
   applied to a signal list drawn from a pool *)

MaxLen == 3

MacdBullish90 ==
    Signal("MACD BULL CROSS", "MACD", BULLISH, "MACD crossed above signal line",
           "float", 90, FALSE, "")
MacdBearish60 ==
    Signal("MACD BEAR CROSS", "MACD", BEARISH, "MACD crossed below signal line",
           "float", 60, FALSE, "")
MacdBearish90 ==
    Signal("MACD BEAR CROSS", "MACD", STRONG_BEARISH,
           "MACD crossed below signal line", "float", 90, FALSE, "")

SignalPool ==
    {MacdBullish90, MacdBearish60, MacdBearish90, StochCrossAbove, CustomStoch,
     CustomDivergence}

SignalLists == UNION {[1..n -> SignalPool] : n \in 0..MaxLen}

QualityThresholds == {60, 90, 100}

AggregatorIdle ==
    /\ detectors = <<>>
    /\ df = [empty |-> TRUE, columns |-> {}]
    /\ quality_min = DefaultMinQuality
    /\ invoked = <<>>
    /\ all_signals = <<>>
    /\ raised = "none"
    /\ aggregation = NoResult
    /\ quality_result = NoResult
    /\ analysis = NoResult

idleInQuality == <<detectors, df, quality_min, invoked, all_signals, raised,
                   aggregation, quality_result, analysis, scoreVars, laterVars>>

InitQuality ==
    /\ AggregatorIdle
    /\ ScoreIdle
    /\ last_call = "none"
    /\ input \in SignalLists
    /\ args = NoResult
    /\ output = <<>>
    /\ LaterIdle

\* SignalAggregator._deduplicate(input)
Deduplicate ==
    /\ last_call' = "_deduplicate"
    /\ args' = NoResult
    /\ output' = _deduplicate(input)
    /\ UNCHANGED <<input, idleInQuality>>

\* ContradictionDetector.resolve_contradictions(input)
ResolveContradictions ==
    /\ last_call' = "resolve_contradictions"
    /\ args' = [resolution |-> "remove_lower_confidence"]
    /\ output' = resolve_contradictions(input, "remove_lower_confidence")
    /\ UNCHANGED <<input, idleInQuality>>

\* QualityScorer.filter_by_quality(input, m)
FilterByQuality(m) ==
    /\ last_call' = "filter_by_quality"
    /\ args' = [min_quality |-> m]
    /\ output' = filter_by_quality(input, m)
    /\ UNCHANGED <<input, idleInQuality>>

\* SignalQualityPipeline(v, r, s, m).process(input)
Process(v, r, s, m) ==
    \E pipeline \in {[validate |-> v, resolve_contradictions |-> r,
                      score_quality |-> s, min_quality |-> m]} :
        /\ last_call' = "process"
        /\ args' = pipeline
        /\ output' = process(pipeline, input)
        /\ UNCHANGED <<input, idleInQuality>>

NextQuality ==
    \/ Deduplicate
    \/ ResolveContradictions
    \/ \E m \in QualityThresholds : FilterByQuality(m)
    \/ \E v, r, s \in BOOLEAN, m \in QualityThresholds : Process(v, r, s, m)

SpecQuality == InitQuality /\ [][NextQuality]_vars

\* C4: deduplication is idempotent: deduplicating the list _deduplicate
\* returned gives that list again, the same signals in the same order.
C4_DedupIdempotent ==
    last_call = "_deduplicate" => _deduplicate(output) = output

\* a list of three signals lost a duplicate and kept two signals
C4_Witness ==
    /\ last_call = "_deduplicate"
    /\ Len(input) = 3
    /\ Len(output) = 2

OppositeInExclusive(a, b) ==
    /\ a.category = b.category
    /\ a.category \in EXCLUSIVE_CATEGORIES
    /\ \/ is_bullish(a) /\ is_bearish(b)
       \/ is_bearish(a) /\ is_bullish(b)

NoExclusiveConflict(signals) ==
    \A i, j \in 1..Len(signals) : ~OppositeInExclusive(signals[i], signals[j])

\* the members of a conflicting pair whose confidence is the lower one
LowerMembers(signals) ==
    {i \in 1..Len(signals) :
        \E j \in 1..Len(signals) :
            /\ OppositeInExclusive(signals[i], signals[j])
            /\ signals[i].confidence < signals[j].confidence}

\* the bearish members not above their bullish counterpart and the bullish
\* members below their bearish counterpart
LosingMembers(signals) ==
    {i \in 1..Len(signals) :
        \E j \in 1..Len(signals) :
            /\ signals[i].category = signals[j].category
            /\ signals[i].category \in EXCLUSIVE_CATEGORIES
            /\ \/ /\ is_bearish(signals[i]) /\ is_bullish(signals[j])
                  /\ signals[i].confidence <= signals[j].confidence
               \/ /\ is_bullish(signals[i]) /\ is_bearish(signals[j])
                  /\ signals[i].confidence < signals[j].confidence}

MacdScenario == input \in {<<MacdBullish90, MacdBearish60>>,
                           <<MacdBearish60, MacdBullish90>>}

\* C8 as stated: resolve_contradictions returns the input, in order, without
\* exactly the lower-confidence member of every pair of a bullish and a
\* bearish signal of one direction-exclusive category; no exclusive category of
\* the output holds both directions; MACD bullish 0.9 with MACD bearish 0.6
\* gives the bullish signal alone.
C8_RemovesLowerMember ==
    last_call = "resolve_contradictions" =>
        /\ output = Without(input, LowerMembers(input))
        /\ NoExclusiveConflict(output)
        /\ MacdScenario => output = <<MacdBullish90>>

\* C8, amended: of every such pair the member of lower confidence is removed,
\* and of a pair of equal confidences the bearish member; nothing else is
\* removed, the order is kept, no exclusive category of the output holds both
\* directions, and the MACD 0.9 / 0.6 lists give the bullish signal alone.
C8_RemovesLowerOrBearishOnTie ==
    last_call = "resolve_contradictions" =>
        /\ output = Without(input, LosingMembers(input))
        /\ NoExclusiveConflict(output)
        /\ MacdScenario => output = <<MacdBullish90>>

\* a bullish and a bearish MACD signal of equal confidence were resolved and
\* the bullish one was kept
C8_Witness ==
    /\ last_call = "resolve_contradictions"
    /\ \E i, j \in 1..Len(input) :
           /\ OppositeInExclusive(input[i], input[j])
           /\ is_bullish(input[i])
           /\ input[i].confidence = input[j].confidence
           /\ \E k \in 1..Len(output) : output[k] = input[i]
           /\ \A k \in 1..Len(output) : output[k] # input[j]

RECURSIVE IsSubList(_, _)
\* a is b with some of its elements left out
IsSubList(a, b) ==
    IF a = <<>> THEN TRUE
    ELSE IF b = <<>> THEN FALSE
    ELSE IF Head(a) = Head(b) THEN IsSubList(Tail(a), Tail(b))
    ELSE IsSubList(a, Tail(b))

\* C10: the quality filter is monotonic in its threshold: what filter_by_quality,
\* and process with the same toggles, retain at a threshold is a sub-list of
\* what they retain at any lower threshold, so that raising min_quality never
\* increases the retained count.
C10_FilterMonotonic ==
    /\ last_call = "filter_by_quality" =>
           \A m1 \in 0..args.min_quality :
               /\ IsSubList(output, filter_by_quality(input, m1))
               /\ Len(output) <= Len(filter_by_quality(input, m1))
    /\ last_call = "process" =>
           \A m1 \in {m \in QualityThresholds : m <= args.min_quality} :
               LET lower == process([args EXCEPT !.min_quality = m1], input)
               IN  IsSubList(output, lower) /\ Len(output) <= Len(lower)

\* a higher threshold retained some signals and fewer than a lower one; a
\* pipeline did the same with validation and resolution switched on
C10_Witness ==
    /\ last_call = "process"
    /\ args.validate /\ args.resolve_contradictions /\ args.score_quality
    /\ output # <<>>
    /\ \E m1 \in QualityThresholds :
           /\ m1 < args.min_quality
           /\ Len(output) < Len(process([args EXCEPT !.min_quality = m1], input))
           /\ Len(output) < Len(filter_by_quality(input, args.min_quality))
           /\ Len(filter_by_quality(input, args.min_quality))
                  < Len(filter_by_quality(input, m1))

-----------------------------------------------------------------------------
(* QualityScorer.score_signal applied to one signal *)

ScoreStrengths == VALID_STRENGTHS \cup {"STRONG TREND"}

ScoredSignals ==
    {Signal("SIGNAL", "RSI", strength, "scored", "float", confidence, details,
            implication) :
        strength \in ScoreStrengths, confidence \in 0..MaxConfidence,
        details \in BOOLEAN, implication \in {"", "Hold"}}

InitScore ==
    /\ AggregatorIdle
    /\ QualityIdle
    /\ last_call = "none"
    /\ scored \in ScoredSignals
    /\ quality_score = 0
    /\ LaterIdle

\* QualityScorer.score_signal(scored)
ScoreSignal ==
    /\ last_call' = "score_signal"
    /\ quality_score' = score_signal(scored)
    /\ UNCHANGED <<scored, detectors, df, quality_min, invoked, all_signals,
                   raised, aggregation, quality_result, analysis, qualVars,
                   laterVars>>

NextScore == ScoreSignal

SpecScore == InitScore /\ [][NextScore]_vars

Adjustment(cond, amount) == IF cond THEN amount ELSE 0

\* C9 as stated: the score is the single clamp to [0, 1] of confidence + 0.1
\* (strength contains STRONG or EXTREME) + 0.05 (details) + 0.05 (trading
\* implication) - 0.1 (neutral).
C9_SingleClampOfSum ==
    last_call = "score_signal" =>
        quality_score =
            Max(0, Min(MaxConfidence,
                scored.confidence
                + Adjustment(Contains(scored.strength, "STRONG")
                             \/ Contains(scored.strength, "EXTREME"), StrongBoost)
                + Adjustment(scored.details, DetailsBoost)
                + Adjustment(scored.trading_implication # "", ImplicationBoost)
                - Adjustment(scored.strength = NEUTRAL, NeutralPenalty)))

\* C9, amended: the strength boost is given to a bullish or bearish strength
\* that contains STRONG or EXTREME; the boosted sum is clamped to at most 1
\* before the neutral penalty is subtracted, and the result is clamped to at
\* least 0.
C9_ClampThenPenalty ==
    last_call = "score_signal" =>
        LET directed == \/ Contains(Upper(scored.strength), "BULLISH")
                        \/ Contains(Upper(scored.strength), "BEARISH")
            strong == \/ Contains(scored.strength, "STRONG")
                      \/ Contains(scored.strength, "EXTREME")
            boosted == Min(MaxConfidence,
                           scored.confidence
                           + Adjustment(directed /\ strong, StrongBoost)
                           + Adjustment(scored.details, DetailsBoost)
                           + Adjustment(scored.trading_implication # "",
                                        ImplicationBoost))
        IN  quality_score =
                Max(0, boosted - Adjustment(scored.strength = NEUTRAL,
                                            NeutralPenalty))

\* a neutral signal of confidence 1.0 with details and a trading implication
\* was scored 0.9
C9_Witness ==
    /\ last_call = "score_signal"
    /\ scored.strength = NEUTRAL
    /\ scored.confidence = MaxConfidence
    /\ scored.details
    /\ scored.trading_implication # ""
    /\ quality_score = MaxConfidence - NeutralPenalty

-----------------------------------------------------------------------------
(* SignalValidator.validate_batch applied to a list of signals, each well
   formed or with one defect *)

WellFormed == Signal("RSI OVERSOLD", "RSI", BULLISH, "RSI below 30", "float", 65,
                     FALSE, "")

ValidationPool ==
    {WellFormed,
     [WellFormed EXCEPT !.category = "SENTIMENT"],
     [WellFormed EXCEPT !.value = "None"],
     [WellFormed EXCEPT !.confidence = 0],
     [WellFormed EXCEPT !.confidence = MaxConfidence],
     [WellFormed EXCEPT !.name = ""],
     [WellFormed EXCEPT !.category = ""],
     [WellFormed EXCEPT !.strength = ""],
     [WellFormed EXCEPT !.description = ""],
     [WellFormed EXCEPT !.strength = "CROSS_BULLISH"],
     [WellFormed EXCEPT !.confidence = 0 - 1],
     [WellFormed EXCEPT !.confidence = MaxConfidence + 1],
     [WellFormed EXCEPT !.value = "text"]}

InitValidate ==
    /\ AggregatorIdle
    /\ ScoreIdle
    /\ last_call = "none"
    /\ input \in UNION {[1..n -> ValidationPool] : n \in 0..MaxLen}
    /\ args = NoResult
    /\ output = <<>>
    /\ LaterIdle

\* SignalValidator.validate_batch(input): output is the returned tuple
ValidateBatch ==
    /\ last_call' = "validate_batch"
    /\ args' = NoResult
    /\ output' = validate_batch(input)
    /\ UNCHANGED <<input, idleInQuality>>

NextValidate == ValidateBatch

SpecValidate == InitValidate /\ [][NextValidate]_vars

\* the index set of the signals the stated conditions reject
Rejected(signals) ==
    {i \in 1..Len(signals) :
        \/ signals[i].name = ""
        \/ signals[i].category = ""
        \/ signals[i].strength = ""
        \/ signals[i].description = ""
        \/ signals[i].strength \notin VALID_STRENGTHS
        \/ signals[i].confidence < 0
        \/ signals[i].confidence > MaxConfidence
        \/ signals[i].value \notin {"None", "float"}}

-----------------------------------------------------------------------------
(* SignalQualityPipeline.process applied to signal objects whose fields hold
   any Python value.  A field value carries its type: a str, a float (in
   hundredths) or None.  The confidences of the model are floats or None. *)

PyNone == [type |-> "NoneType", str |-> "", num |-> 0]
PyStr(s) == [type |-> "str", str |-> s, num |-> 0]
PyFloat(n) == [type |-> "float", str |-> "", num |-> n]

IsStr(v) == v.type = "str"
IsFloat(v) == v.type = "float"

\* not v
Falsy(v) ==
    \/ v.type = "NoneType"
    \/ v.type = "str" /\ v.str = ""
    \/ v.type = "float" /\ v.num = 0

\* Signal(...) with the field values as given
SignalObject(name, category, strength, confidence, value) ==
    [name |-> name, category |-> category, strength |-> strength,
     description |-> PyStr("described"), timeframe |-> "unknown",
     value |-> value, confidence |-> confidence, details |-> FALSE,
     trading_implication |-> ""]

\* the signal of an object whose fields have their declared types
ToSignal(o) ==
    [o EXCEPT !.name = o.name.str, !.category = o.category.str,
              !.strength = o.strength.str, !.description = o.description.str,
              !.confidence = o.confidence.num]

\* validate(signal): "valid", "invalid", or the exception it raises
validate_object(o) ==
    IF Falsy(o.name) \/ ~IsStr(o.name) THEN "invalid"
    ELSE IF Falsy(o.category) \/ ~IsStr(o.category) THEN "invalid"
    ELSE IF Falsy(o.strength) \/ ~IsStr(o.strength) THEN "invalid"
    ELSE IF Falsy(o.description) \/ ~IsStr(o.description) THEN "invalid"
    ELSE IF o.strength.str \notin VALID_STRENGTHS THEN "invalid"
    \* 0.0 <= signal.confidence <= 1.0: None is not ordered with a float
    ELSE IF ~IsFloat(o.confidence) THEN "TypeError"
    ELSE IF ~(0 <= o.confidence.num /\ o.confidence.num <= MaxConfidence)
         THEN "invalid"
    ELSE IF o.value # "None" /\ o.value # "float" THEN "invalid"
    ELSE "valid"

\* the exception the first raising element of a loop raises, or "none"
FirstRaised(outcomes) ==
    LET Raises(x) == x \notin {"none", "valid", "invalid"}
        raising == SelectSeq(outcomes, Raises)
    IN  IF raising = <<>> THEN "none" ELSE Head(raising)

\* validate_batch(signals): [raised, result]
validate_batch_objects(objects) ==
    LET outcomes == List([i \in 1..Len(objects) |-> validate_object(objects[i])])
        IsValid(o) == validate_object(o) = "valid"
    IN  IF FirstRaised(outcomes) # "none"
        THEN [raised |-> FirstRaised(outcomes), result |-> <<>>]
        ELSE [raised |-> "none", result |-> SelectSeq(objects, IsValid)]

\* SignalStrength.is_bullish / is_bearish(s.strength): strength.upper()
upper_raises(o) == IF IsStr(o.strength) THEN "none" ELSE "AttributeError"

\* resolve_contradictions(signals): [raised, result]
resolve_contradictions_objects(objects) ==
    LET exclusive == {i \in 1..Len(objects) :
                         /\ IsStr(objects[i].category)
                         /\ objects[i].category.str \in EXCLUSIVE_CATEGORIES}
        Examined(o) == IsStr(o.category) /\ o.category.str \in EXCLUSIVE_CATEGORIES
        examined == SelectSeq(objects, Examined)
        uppers == List([i \in 1..Len(examined) |-> upper_raises(examined[i])])
        Bull(i) == i \in exclusive
                   /\ SignalStrength_is_bullish(objects[i].strength.str)
        Bear(i) == i \in exclusive
                   /\ SignalStrength_is_bearish(objects[i].strength.str)
        contradictions ==
            {p \in (1..Len(objects)) \X (1..Len(objects)) :
                /\ Bull(p[1]) /\ Bear(p[2])
                /\ objects[p[1]].category = objects[p[2]].category}
        Unordered(p) == ~IsFloat(objects[p[1]].confidence)
                        \/ ~IsFloat(objects[p[2]].confidence)
        Marked(p) == IF objects[p[1]].confidence.num >= objects[p[2]].confidence.num
                     THEN p[2] ELSE p[1]
    IN  IF FirstRaised(uppers) # "none"
        THEN [raised |-> "AttributeError", result |-> <<>>]
        ELSE IF \E p \in contradictions : Unordered(p)
        THEN [raised |-> "TypeError", result |-> <<>>]
        ELSE [raised |-> "none",
              result |-> Without(objects, {Marked(p) : p \in contradictions})]

\* score_signal(signal) and the comparison score >= min_quality: "none", or
\* the exception raised
score_raises(o) ==
    IF ~IsStr(o.strength) THEN "AttributeError"
    \* score + 0.1, score - 0.1, or score >= min_quality with score None
    ELSE IF ~IsFloat(o.confidence) THEN "TypeError"
    ELSE "none"

\* filter_by_quality(signals, min_quality): [raised, result]
filter_by_quality_objects(objects, min_quality) ==
    LET outcomes == List([i \in 1..Len(objects) |-> score_raises(objects[i])])
        Keep(o) == score_signal(ToSignal(o)) >= min_quality
    IN  IF FirstRaised(outcomes) # "none"
        THEN [raised |-> FirstRaised(outcomes), result |-> <<>>]
        ELSE [raised |-> "none", result |-> SelectSeq(objects, Keep)]

\* process(signals): [raised, result]
process_objects(pipeline, objects) ==
    LET r1 == IF pipeline.validate THEN validate_batch_objects(objects)
              ELSE [raised |-> "none", result |-> objects]
        r2 == IF r1.raised # "none" THEN r1
              ELSE IF pipeline.resolve_contradictions
              THEN resolve_contradictions_objects(r1.result) ELSE r1
        r3 == IF r2.raised # "none" THEN r2
              ELSE IF pipeline.score_quality
              THEN filter_by_quality_objects(r2.result, pipeline.min_quality)
              ELSE r2
    IN  r3

ObjectPool ==
    {SignalObject(PyStr("MACD BULL CROSS"), PyStr("MACD"), PyStr(BULLISH),
                  PyFloat(70), "float"),
     SignalObject(PyStr("MACD BEAR CROSS"), PyStr("MACD"), PyStr(BEARISH),
                  PyFloat(60), "float"),
     SignalObject(PyNone, PyStr("RSI"), PyStr(BULLISH), PyFloat(70), "float"),
     SignalObject(PyStr("MACD BULL CROSS"), PyStr("MACD"), PyNone, PyFloat(70),
                  "float"),
     SignalObject(PyStr("RSI OVERSOLD"), PyStr("RSI"), PyStr(BULLISH), PyNone,
                  "float"),
     SignalObject(PyStr("RSI OVERSOLD"), PyStr("RSI"), PyStr(BULLISH),
                  PyFloat(MaxConfidence + 50), "float"),
     SignalObject(PyStr("RSI OVERSOLD"), PyStr("RSI"), PyStr(BULLISH),
                  PyFloat(70), "text")}

InitObjects ==
    /\ AggregatorIdle
    /\ ScoreIdle
    /\ last_call = "none"
    /\ input \in UNION {[1..n -> ObjectPool] : n \in 0..MaxLen}
    /\ args = NoResult
    /\ output = <<>>
    /\ LaterIdle

\* SignalQualityPipeline(v, r, s).process(input): output is [raised, result]
ProcessObjects(v, r, s) ==
    \E pipeline \in {[validate |-> v, resolve_contradictions |-> r,
                      score_quality |-> s, min_quality |-> DefaultMinQuality]} :
        /\ last_call' = "process"
        /\ args' = pipeline
        /\ output' = process_objects(pipeline, input)
        /\ UNCHANGED <<input, idleInQuality>>

NextObjects == \E v, r, s \in BOOLEAN : ProcessObjects(v, r, s)

SpecObjects == InitObjects /\ [][NextObjects]_vars

\* C12: process never raises for malformed input signals: whatever the field
\* values of the signals (None or wrongly typed name, strength, confidence or
\* value included) and whatever the three toggles, it returns a list, and with
\* validation switched on one that holds no signal validation rejects.
C12_ProcessNeverRaises ==
    last_call = "process" =>
        /\ output.raised = "none"
        /\ args.validate =>
               \A k \in 1..Len(output.result) :
                   validate_object(output.result[k]) = "valid"

-----------------------------------------------------------------------------
(* indicators/base.py: IndicatorBase, IndicatorGroup.  A table is its column
   set and its number of rows; an indicator is its metadata, the columns its
   calculate() adds and the exception calculate() raises, if any. *)

MaxIndicators == 3

requires_columns == {"Open", "High", "Low", "Close", "Volume"}

Table(columns, rows) == [columns |-> columns, rows |-> rows]

\* df.empty
Empty(table) == table.rows = 0 \/ table.columns = {}

Indicator(name, min_bars_required, output_columns, adds, raises) ==
    [name |-> name, min_bars_required |-> min_bars_required,
     output_columns |-> output_columns, adds |-> adds, raises |-> raises]

\* IndicatorBase.validate: "none", or the exception it raises
IndicatorBase_validate(indicator, table) ==
    IF Empty(table) THEN "SignalDetectionError"
    ELSE IF requires_columns \ table.columns # {} THEN "SignalDetectionError"
    ELSE IF table.rows < indicator.min_bars_required THEN "InsufficientDataError"
    ELSE "none"

\* calculate(): works on a copy of the table
calculate(indicator, table) ==
    IF indicator.raises # "none"
    THEN [exc |-> indicator.raises, table |-> table]
    ELSE [exc |-> "none",
          table |-> [table EXCEPT !.columns = @ \cup indicator.adds]]

\* IndicatorBase.execute: [exc, table, calculated]
IndicatorBase_execute(indicator, table) ==
    IF IndicatorBase_validate(indicator, table) # "none"
    THEN [exc |-> IndicatorBase_validate(indicator, table), table |-> table,
          calculated |-> FALSE]
    ELSE LET r == calculate(indicator, table)
         IN  IF r.exc \in {"InsufficientDataError", "SignalDetectionError"}
             THEN [exc |-> r.exc, table |-> table, calculated |-> TRUE]
             ELSE IF r.exc # "none"
             THEN [exc |-> "SignalDetectionError", table |-> table,
                   calculated |-> TRUE]
             ELSE IF indicator.output_columns \ r.table.columns # {}
             THEN [exc |-> "SignalDetectionError", table |-> table,
                   calculated |-> TRUE]
             ELSE [exc |-> "none", table |-> r.table, calculated |-> TRUE]

\* a group that lets InsufficientDataError pass
GroupCatchesDetectionOnly(exc) == exc = "SignalDetectionError"

\* except (InsufficientDataError, SignalDetectionError)
GroupCatches(exc) == exc \in {"InsufficientDataError", "SignalDetectionError"}

RECURSIVE GroupLoop(_, _)
\* for indicator in self.indicators: try ... except ... continue
GroupLoop(indicators, acc) ==
    IF indicators = <<>> THEN acc
    ELSE LET r == IndicatorBase_execute(Head(indicators), acc.table)
             ran == IF r.calculated
                    THEN Append(acc.calculated, Head(indicators).name)
                    ELSE acc.calculated
         IN  IF r.exc = "none"
             THEN GroupLoop(Tail(indicators),
                            [acc EXCEPT !.table = r.table, !.calculated = ran])
             ELSE IF GroupCatches(r.exc)
             THEN GroupLoop(Tail(indicators), [acc EXCEPT !.calculated = ran])
             ELSE [acc EXCEPT !.exc = r.exc, !.calculated = ran]

\* IndicatorGroup.execute: [exc, table, calculated]
IndicatorGroup_execute(indicators, table) ==
    GroupLoop(indicators, [exc |-> "none", table |-> table, calculated |-> <<>>])

IndicatorPool ==
    {Indicator("Simple Moving Average", 20, {"SMA_20"}, {"SMA_20"}, "none"),
     Indicator("Simple Moving Average (200)", 200, {"SMA_200"}, {"SMA_200"},
               "none"),
     Indicator("MACD", 26, {"MACD", "MACD_Signal", "MACD_Histogram"},
               {"MACD", "MACD_Signal", "MACD_Histogram"}, "none"),
     Indicator("On-Balance Volume", 1, {"OBV"}, {"OBV"}, "none"),
     \* a calculate() that raises
     Indicator("Relative Strength Index", 15, {"RSI_14"}, {}, "ZeroDivisionError"),
     \* a calculate() that leaves out a declared column
     Indicator("Average True Range", 15, {"ATR_14", "TR_14"}, {"ATR_14"}, "none")}

MarketTables ==
    {Table(requires_columns, 60), Table(requires_columns, 10),
     Table(requires_columns, 0), Table(requires_columns \ {"Volume"}, 60)}

indicatorsFrame == <<detectors, df, quality_min, invoked, all_signals,
                     aggregation, quality_result, analysis, qualVars, scoreVars,
                     detVars, seriesVars, constructVars, sharedVars, runVars>>

InitIndicators ==
    /\ AggregatorIdle
    /\ QualityIdle
    /\ ScoreIdle
    /\ DetectorsIdle
    /\ SeriesIdle
    /\ ConstructIdle
    /\ SharedIdle
    /\ RunIdle
    /\ last_call = "none"
    /\ group \in UNION {[1..n -> IndicatorPool] : n \in 0..MaxIndicators}
    /\ market_data \in MarketTables
    /\ result_table = NoResult
    /\ calculated = <<>>

\* IndicatorGroup(name, group).execute(market_data)
GroupExecute ==
    \E r \in {IndicatorGroup_execute(group, market_data)} :
        /\ last_call' = "IndicatorGroup.execute"
        /\ raised' = r.exc
        /\ result_table' = IF r.exc = "none" THEN r.table ELSE NoResult
        /\ calculated' = r.calculated
        /\ UNCHANGED <<group, market_data, indicatorsFrame>>

\* indicator.execute(market_data), invoked directly
IndicatorExecute(indicator) ==
    \E r \in {IndicatorBase_execute(indicator, market_data)} :
        /\ last_call' = indicator.name
        /\ raised' = r.exc
        /\ result_table' = IF r.exc = "none" THEN r.table ELSE NoResult
        /\ calculated' = IF r.calculated THEN <<indicator.name>> ELSE <<>>
        /\ UNCHANGED <<group, market_data, indicatorsFrame>>

NextIndicators ==
    \/ GroupExecute
    \/ \E indicator \in IndicatorPool : IndicatorExecute(indicator)

SpecIndicators == InitIndicators /\ [][NextIndicators]_vars

\* the table is not empty, holds the input columns and has the rows needed
TableFits(indicator) ==
    /\ market_data.rows > 0
    /\ requires_columns \subseteq market_data.columns
    /\ market_data.rows >= indicator.min_bars_required

\* the indicator computes without error every column it declares
Succeeds(indicator) ==
    /\ TableFits(indicator)
    /\ indicator.raises = "none"
    /\ indicator.output_columns \subseteq indicator.adds

\* C13: IndicatorGroup.execute never aborts on a member failure: it raises
\* nothing, runs calculate() of every member the table fits, in list order,
\* and returns the input table with the output columns of exactly the members
\* that succeeded; the same failure in a directly invoked indicator is raised
\* to the caller.
C13_GroupSkipsFailingMembers ==
    /\ last_call = "IndicatorGroup.execute" =>
           LET NameOf(i) == i.name
               fitting == SelectSeq(group, TableFits)
               succeeded == {group[i] : i \in {j \in 1..Len(group) : Succeeds(group[j])}}
           IN  /\ raised = "none"
               /\ calculated = List([i \in 1..Len(fitting) |-> NameOf(fitting[i])])
               /\ result_table.rows = market_data.rows
               /\ result_table.columns =
                      market_data.columns
                      \cup UNION {i.output_columns : i \in succeeded}
    /\ \A indicator \in IndicatorPool :
           last_call = indicator.name =>
               /\ Succeeds(indicator) <=> raised = "none"
               /\ ~Succeeds(indicator) =>
                      /\ raised \in {"InsufficientDataError", "SignalDetectionError"}
                      /\ result_table = NoResult
               /\ Succeeds(indicator) =>
                      result_table.columns =
                          market_data.columns \cup indicator.output_columns

\* a group whose first member lacks rows, whose second raises in calculate()
\* and whose third leaves out a column ran all three and returned the table
\* with the columns of a later member only
C13_Witness ==
    /\ last_call = "IndicatorGroup.execute"
    /\ market_data.rows = 60
    /\ \E i, j, k \in 1..Len(group) :
           /\ group[i].min_bars_required > market_data.rows
           /\ group[j].raises # "none"
           /\ group[k].raises = "none" /\ group[k].output_columns \ group[k].adds # {}
    /\ Len(calculated) = 2
    /\ raised = "none"

-----------------------------------------------------------------------------
(* signals/ma_signals.py: MovingAverageCrossoverDetector.  A cell of the table
   is NaN, an infinity or a number. *)

MaxBars == 3

NaN == [kind |-> "nan", num |-> 0]
Inf == [kind |-> "inf", num |-> 0]
Num(n) == [kind |-> "num", num |-> n]

\* _safe_float: None for NaN and infinities, else the float
_safe_float(value) ==
    IF value.kind = "nan" \/ value.kind = "inf" THEN PyNone ELSE PyFloat(value.num)

MovingAverageCrossoverDetector(fast_period, slow_period) ==
    [class |-> "MovingAverageCrossoverDetector",
     fast_period |-> fast_period, slow_period |-> slow_period]

fast_col(d) == "SMA_" \o ToString(d.fast_period)
slow_col(d) == "SMA_" \o ToString(d.slow_period)

\* a crossing that requires fast < slow on the prior bar
BullishCrossStrict(fast_prev, slow_prev, fast_curr, slow_curr) ==
    fast_prev < slow_prev /\ fast_curr > slow_curr

\* if fast_prev <= slow_prev and fast_curr > slow_curr
BullishCross(fast_prev, slow_prev, fast_curr, slow_curr) ==
    fast_prev <= slow_prev /\ fast_curr > slow_curr

\* elif fast_prev >= slow_prev and fast_curr < slow_curr
BearishCross(fast_prev, slow_prev, fast_curr, slow_curr) ==
    fast_prev >= slow_prev /\ fast_curr < slow_curr

Periods(d) == ToString(d.fast_period) \o "/" \o ToString(d.slow_period)

\* MovingAverageCrossoverDetector.detect
MovingAverageCrossoverDetector_detect(d, table) ==
    IF Len(table) < 2 THEN <<>>
    ELSE LET current == table[Len(table)]
             previous == table[Len(table) - 1]
             fast_curr == _safe_float(current[fast_col(d)])
             slow_curr == _safe_float(current[slow_col(d)])
             fast_prev == _safe_float(previous[fast_col(d)])
             slow_prev == _safe_float(previous[slow_col(d)])
         IN  IF \E v \in {fast_curr, slow_curr, fast_prev, slow_prev} : v = PyNone
             THEN <<>>
             ELSE IF BullishCross(fast_prev.num, slow_prev.num,
                                  fast_curr.num, slow_curr.num)
             THEN <<Signal(Periods(d) \o " MA BULL CROSS", "MA_CROSS", BULLISH,
                           ToString(d.fast_period) \o " MA crossed above "
                               \o ToString(d.slow_period) \o " MA",
                           fast_curr.num, 70, FALSE,
                           "Uptrend forming; consider long entries")>>
             ELSE IF BearishCross(fast_prev.num, slow_prev.num,
                                  fast_curr.num, slow_curr.num)
             THEN <<Signal(Periods(d) \o " MA BEAR CROSS", "MA_CROSS", BEARISH,
                           ToString(d.fast_period) \o " MA crossed below "
                               \o ToString(d.slow_period) \o " MA",
                           fast_curr.num, 70, FALSE,
                           "Downtrend forming; consider short entries or exits")>>
             ELSE <<>>

CrossoverDetectors ==
    {MovingAverageCrossoverDetector(10, 20), MovingAverageCrossoverDetector(5, 10)}

Cells == {NaN, Inf, Num(1), Num(2)}

\* the tables of up to MaxBars bars holding the two columns of the detector
CrossoverFrames(d) ==
    UNION {[1..n -> [{fast_col(d), slow_col(d)} -> Cells]] : n \in 0..MaxBars}

crossoverFrame == <<detectors, df, quality_min, invoked, all_signals, raised,
                    aggregation, quality_result, analysis, qualVars, scoreVars,
                    indVars, seriesVars, constructVars, sharedVars, runVars>>

InitCrossover ==
    /\ AggregatorIdle
    /\ QualityIdle
    /\ ScoreIdle
    /\ IndicatorsIdle
    /\ SeriesIdle
    /\ ConstructIdle
    /\ SharedIdle
    /\ RunIdle
    /\ last_call = "none"
    /\ subject \in CrossoverDetectors
    /\ frame \in CrossoverFrames(subject)
    /\ detected = <<>>

\* detector.detect(frame)
CrossoverDetect ==
    /\ last_call' = "MovingAverageCrossoverDetector.detect"
    /\ detected' = MovingAverageCrossoverDetector_detect(subject, frame)
    /\ UNCHANGED <<subject, frame, crossoverFrame>>

NextCrossover == CrossoverDetect

SpecCrossover == InitCrossover /\ [][NextCrossover]_vars

\* the last two rows hold numbers in both MA columns
LastTwoDefined ==
    /\ Len(frame) >= 2
    /\ \A i \in {Len(frame) - 1, Len(frame)} :
           \A c \in {fast_col(subject), slow_col(subject)} :
               frame[i][c].kind = "num"

\* C14: when the last two rows hold defined fast and slow MA values, detect
\* returns exactly one signal, BULLISH of category MA_CROSS, if and only if
\* fast <= slow on the prior bar and fast > slow on the current bar, exactly
\* one signal, BEARISH of category MA_CROSS, if and only if fast >= slow on
\* the prior bar and fast < slow on the current bar, and no signal otherwise;
\* it never returns both.
C14_CrossoverIffFlip ==
    (last_call = "MovingAverageCrossoverDetector.detect" /\ LastTwoDefined) =>
        LET prev == frame[Len(frame) - 1]
            curr == frame[Len(frame)]
            f0 == prev[fast_col(subject)].num
            s0 == prev[slow_col(subject)].num
            f1 == curr[fast_col(subject)].num
            s1 == curr[slow_col(subject)].num
            up == f0 <= s0 /\ f1 > s1
            down == f0 >= s0 /\ f1 < s1
            bulls == {i \in 1..Len(detected) : detected[i].strength = BULLISH}
            bears == {i \in 1..Len(detected) : detected[i].strength = BEARISH}
        IN  /\ up <=> Cardinality(bulls) = 1
            /\ down <=> Cardinality(bears) = 1
            /\ Len(detected) = Cardinality(bulls) + Cardinality(bears)
            /\ Len(detected) <= 1
            /\ \A i \in 1..Len(detected) :
                   /\ detected[i].category = "MA_CROSS"
                   /\ detected[i].confidence = 70
                   /\ detected[i].value = f1

\* the fast MA equalled the slow MA on the prior bar and is above it on the
\* current bar: one bullish crossing was returned
C14_Witness ==
    /\ last_call = "MovingAverageCrossoverDetector.detect"
    /\ LastTwoDefined
    /\ frame[Len(frame) - 1][fast_col(subject)] = frame[Len(frame) - 1][slow_col(subject)]
    /\ frame[Len(frame)][fast_col(subject)].num > frame[Len(frame)][slow_col(subject)].num
    /\ Len(detected) = 1
    /\ detected[1].name = "10/20 MA BULL CROSS"

-----------------------------------------------------------------------------
(* ma_signals.py, indicators/registry.py: the moving averages computed from a
   price series and handed to the aggregator.

   Column values are fixed-point numbers in units of 1/Scale of a price unit.
   The series of the model are flat except for their last MaxTail bars, and
   on such a series every EMA value is a whole number of units. *)

MaxTail == 2

\* spans 10 and 20 divide by 11 and by 21 at every bar
Scale == (11 * 21) ^ MaxTail

RECURSIVE ewm_mean(_, _, _)
\* Close.ewm(span=span, adjust=False).mean() at bar i:
\* y[1] = x[1], y[i] = (1 - a) * y[i-1] + a * x[i] with a = 2 / (span + 1)
ewm_mean(prices, span, i) ==
    IF i = 1 THEN prices[1] * Scale
    ELSE ((span - 1) * ewm_mean(prices, span, i - 1) + 2 * prices[i] * Scale)
             \div (span + 1)

RECURSIVE Sum(_, _, _)
Sum(prices, from, to) ==
    IF from > to THEN 0 ELSE prices[to] + Sum(prices, from, to - 1)

\* Close.rolling(window, min_periods).mean() at bar i
rolling_mean(prices, window, min_periods, i) ==
    LET from == Max(1, i - window + 1)
    IN  IF i - from + 1 < min_periods THEN NaN
        ELSE Num((Sum(prices, from, i) \div (i - from + 1)) * Scale
                 + ((Sum(prices, from, i) % (i - from + 1)) * Scale)
                       \div (i - from + 1))

\* a column computed from Close
Rolling(column, window, min_periods) ==
    [column |-> column, kind |-> "rolling", window |-> window,
     min_periods |-> min_periods]
Ewm(column, span) ==
    [column |-> column, kind |-> "ewm", window |-> span, min_periods |-> 0]

(* momentum-signals.py: RelativeStrengthIndex; trend_volume.py:
   OnBalanceVolume *)

\* delta = Close.diff(); gains = delta.where(delta > 0, 0): the first bar,
\* whose delta is NaN, counts as 0
gains(prices, i) ==
    IF i >= 2 /\ prices[i] - prices[i - 1] > 0 THEN prices[i] - prices[i - 1]
    ELSE 0

\* losses = -delta.where(delta < 0, 0)
losses(prices, i) ==
    IF i >= 2 /\ prices[i] - prices[i - 1] < 0 THEN prices[i - 1] - prices[i]
    ELSE 0

RECURSIVE SumGains(_, _, _)
SumGains(prices, from, to) ==
    IF from > to THEN 0 ELSE gains(prices, to) + SumGains(prices, from, to - 1)

RECURSIVE SumLosses(_, _, _)
SumLosses(prices, from, to) ==
    IF from > to THEN 0 ELSE losses(prices, to) + SumLosses(prices, from, to - 1)

\* a division that is undefined whenever the divisor is zero
DivideUndefinedByZero(g, l) == IF l = 0 THEN "nan" ELSE "num"

\* rs = avg_gain / avg_loss on floats: x / 0 is an infinity, 0 / 0 is NaN
Divide(g, l) == IF l = 0 THEN (IF g = 0 THEN "nan" ELSE "inf") ELSE "num"

\* 100 - (100 / (1 + rs)) at bar i, rs being the quotient of the means of the
\* last period gains and losses: 100 for an infinite rs, else 100 * g / (g + l)
RelativeStrengthIndex_cell(prices, period, i) ==
    IF i < period THEN NaN
    ELSE LET g == SumGains(prices, i - period + 1, i)
             l == SumLosses(prices, i - period + 1, i)
         IN  CASE Divide(g, l) = "nan" -> NaN
               [] Divide(g, l) = "inf" -> Num(100 * Scale)
               [] OTHER -> Num(((100 * g) \div (g + l)) * Scale
                               + (((100 * g) % (g + l)) * Scale) \div (g + l))

RECURSIVE OnBalanceVolume_cell(_, _, _)
\* obv[0] = 0; obv[i] = obv[i-1] +/- Volume[i] as Close rose or fell.
\* OBV is kept in whole volume units.
OnBalanceVolume_cell(prices, vols, i) ==
    IF i = 1 THEN 0
    ELSE IF prices[i] > prices[i - 1]
    THEN OnBalanceVolume_cell(prices, vols, i - 1) + vols[i]
    ELSE IF prices[i] < prices[i - 1]
    THEN OnBalanceVolume_cell(prices, vols, i - 1) - vols[i]
    ELSE OnBalanceVolume_cell(prices, vols, i - 1)

Rsi(column, period) ==
    [column |-> column, kind |-> "rsi", window |-> period, min_periods |-> period]
Obv(column) ==
    [column |-> column, kind |-> "obv", window |-> 0, min_periods |-> 0]

ColumnCell(c, prices, vols, i) ==
    CASE c.kind = "ewm" -> Num(ewm_mean(prices, c.window, i))
      [] c.kind = "rolling" -> rolling_mean(prices, c.window, c.min_periods, i)
      [] c.kind = "rsi" -> RelativeStrengthIndex_cell(prices, c.window, i)
      [] c.kind = "obv" -> Num(OnBalanceVolume_cell(prices, vols, i))

\* an indicator and the moving-average columns its calculate() computes
WithSeries(indicator, series) == indicator @@ [series |-> series]

SimpleMovingAverage(period) ==
    WithSeries(Indicator("Simple Moving Average (" \o ToString(period) \o ")",
                         period, {"SMA_" \o ToString(period)},
                         {"SMA_" \o ToString(period)}, "none"),
               {Rolling("SMA_" \o ToString(period), period, 1)})

ExponentialMovingAverage(period) ==
    WithSeries(Indicator("Exponential Moving Average (" \o ToString(period) \o ")",
                         period, {"EMA_" \o ToString(period)},
                         {"EMA_" \o ToString(period)}, "none"),
               {Ewm("EMA_" \o ToString(period), period)})

\* MovingAverageCrossover(fast_period, slow_period, ma_type="ema")
MovingAverageCrossover(fast_period, slow_period) ==
    LET fast == "EMA_" \o ToString(fast_period)
        slow == "EMA_" \o ToString(slow_period)
    IN  WithSeries(
            Indicator("MA Crossover (EMA " \o ToString(fast_period) \o "/"
                          \o ToString(slow_period) \o ")",
                      slow_period, {fast, slow, "MA_Cross_Direction"},
                      {fast, slow, "MA_Cross_Direction"}, "none"),
            {Ewm(fast, fast_period), Ewm(slow, slow_period)})

\* MovingAverageRibbon(): EMAs of periods 10, 20, 50, 100, 200
MovingAverageRibbon ==
    LET cols == {"EMA_10", "EMA_20", "EMA_50", "EMA_100", "EMA_200"}
    IN  WithSeries(Indicator("MA Ribbon (EMA 5 MAs)", 200, cols, cols, "none"),
                   {Ewm("EMA_10", 10), Ewm("EMA_20", 20), Ewm("EMA_50", 50),
                    Ewm("EMA_100", 100), Ewm("EMA_200", 200)})

\* an indicator of which the model keeps the column names only
ColumnsOnly(name, min_bars_required, output_columns) ==
    WithSeries(Indicator(name, min_bars_required, output_columns,
                         output_columns, "none"), {})

\* IndicatorFactory.create_all_indicators(): the members, in the order of config
create_all_indicators ==
    <<SimpleMovingAverage(20),
      ExponentialMovingAverage(20),
      MovingAverageCrossover(10, 20),
      MovingAverageRibbon,
      ColumnsOnly("Relative Strength Index (14)", 15, {"RSI_14"}),
      ColumnsOnly("MACD (12,26,9)", 26, {"MACD", "MACD_Signal", "MACD_Histogram"}),
      ColumnsOnly("Stochastic (14,3,3)", 14, {"Stoch_K", "Stoch_D"}),
      ColumnsOnly("Average True Range (14)", 15, {"ATR_14", "TR_14"}),
      ColumnsOnly("Average Directional Index (14)", 28,
                  {"ADX_14", "Plus_DI_14", "Minus_DI_14"}),
      ColumnsOnly("On-Balance Volume", 1, {"OBV"}),
      ColumnsOnly("Volume Moving Average (20)", 20, {"Volume_MA_20"})>>

\* the rows of the table group.execute() returns: Close and the moving
\* averages of the members whose calculate() ran
EnrichedRows(indicators, ran, prices, vols) ==
    LET cols == UNION {indicators[k].series :
                          k \in {j \in 1..Len(indicators) :
                                    \E n \in 1..Len(ran) : ran[n] = indicators[j].name}}
        Col(name) == CHOOSE c \in cols : c.column = name
    IN  List([i \in 1..Len(prices) |->
                 [name \in {c.column : c \in cols} \cup {"Close"} |->
                     IF name = "Close" THEN Num(prices[i] * Scale)
                     ELSE ColumnCell(Col(name), prices, vols, i)]])

\* the detector as the aggregator sees it: its metadata and what detect()
\* does on the table
Registered(d, table) ==
    LET cols == IF table = <<>> THEN {} ELSE DOMAIN table[1]
    IN  IF {fast_col(d), slow_col(d)} \subseteq cols
        THEN Detector("MA Crossover (" \o Periods(d) \o ")",
                      {fast_col(d), slow_col(d)}, "none",
                      MovingAverageCrossoverDetector_detect(d, table))
        ELSE Detector("MA Crossover (" \o Periods(d) \o ")",
                      {fast_col(d), slow_col(d)}, "KeyError", <<>>)

MaxPrice == 3

\* series of 19 to 21 bars at one price followed by up to MaxTail more bars
ScenarioSeries ==
    {List([i \in 1..n |-> c]) \o tail :
        n \in 19..21, c \in 1..MaxPrice,
        tail \in UNION {[1..k -> 1..MaxPrice] : k \in 0..MaxTail}}

\* create_all_indicators(), and the same group with an SMA(10) in front
ScenarioGroups ==
    {create_all_indicators, <<SimpleMovingAverage(10)>> \o create_all_indicators}

scenarioFrame == <<quality_min, quality_result, analysis, qualVars, scoreVars,
                   constructVars, sharedVars, runVars>>

InitScenario ==
    /\ AggregatorIdle
    /\ QualityIdle
    /\ ScoreIdle
    /\ ConstructIdle
    /\ SharedIdle
    /\ RunIdle
    /\ last_call = "none"
    /\ group \in ScenarioGroups
    /\ closes \in ScenarioSeries
    /\ volumes = List([i \in 1..Len(closes) |-> 1])
    /\ market_data = Table(requires_columns, Len(closes))
    /\ result_table = NoResult
    /\ calculated = <<>>
    /\ subject = MovingAverageCrossoverDetector(10, 20)
    /\ frame = <<>>
    /\ detected = <<>>

\* IndicatorGroup("All Indicators", group).execute(market_data)
Enrich ==
    /\ last_call = "none"
    /\ \E r \in {IndicatorGroup_execute(group, market_data)} :
           /\ last_call' = "IndicatorGroup.execute"
           /\ raised' = r.exc
           /\ result_table' = r.table
           /\ calculated' = r.calculated
           /\ frame' = EnrichedRows(group, r.calculated, closes, volumes)
    /\ UNCHANGED <<detectors, df, invoked, all_signals, aggregation, group,
                   market_data, seriesVars, subject, detected, scenarioFrame>>

\* aggregator.add_detector(subject); aggregator.detect(result_table)
AggregateScenario ==
    /\ last_call = "IndicatorGroup.execute"
    /\ \E run \in {SignalAggregator_detect(
                       <<Registered(subject, frame)>>, Timeframe,
                       [empty |-> Empty(result_table),
                        columns |-> result_table.columns])} :
           /\ last_call' = "SignalAggregator.detect"
           /\ detectors' = <<Registered(subject, frame)>>
           /\ df' = [empty |-> Empty(result_table),
                     columns |-> result_table.columns]
           /\ invoked' = run.invoked
           /\ all_signals' = run.all_signals
           /\ raised' = run.raised
           /\ aggregation' = run.result
           /\ detected' = run.all_signals
    /\ UNCHANGED <<indVars, seriesVars, subject, frame, scenarioFrame>>

NextScenario == Enrich \/ AggregateScenario

SpecScenario == InitScenario /\ [][NextScenario]_vars

\* the table holds EMA(10) and EMA(20), and the fast one is at or below the
\* slow one on the second-to-last bar and above it on the last bar
EmaCrossAtLastBar ==
    /\ Len(frame) >= 2
    /\ {"EMA_10", "EMA_20"} \subseteq DOMAIN frame[1]
    /\ frame[Len(frame) - 1]["EMA_10"].num <= frame[Len(frame) - 1]["EMA_20"].num
    /\ frame[Len(frame)]["EMA_10"].num > frame[Len(frame)]["EMA_20"].num

-----------------------------------------------------------------------------
(* signals/momentum_signals.py: RSISignalDetector, on a series enriched with
   RSI(14), OBV and the 10- and 20-bar moving averages. *)

RelativeStrengthIndex(period) ==
    WithSeries(Indicator("Relative Strength Index (" \o ToString(period) \o ")",
                         period + 1, {"RSI_" \o ToString(period)},
                         {"RSI_" \o ToString(period)}, "none"),
               {Rsi("RSI_" \o ToString(period), period)})

OnBalanceVolume ==
    WithSeries(Indicator("On-Balance Volume", 1, {"OBV"}, {"OBV"}, "none"),
               {Obv("OBV")})

RSISignalDetector(period, oversold, overbought) ==
    [class |-> "RSISignalDetector", period |-> period, oversold |-> oversold,
     overbought |-> overbought]

rsi_col(d) == "RSI_" \o ToString(d.period)

\* RSISignalDetector.detect; the descriptions leave out the formatted value
RSISignalDetector_detect(d, table) ==
    IF Len(table) < 1 THEN <<>>
    ELSE LET rsi == _safe_float(table[Len(table)][rsi_col(d)])
         IN  IF rsi = PyNone THEN <<>>
             ELSE IF rsi.num < d.oversold * Scale
             THEN <<Signal("RSI OVERSOLD", "RSI", BULLISH,
                           "RSI(" \o ToString(d.period) \o ") < "
                               \o ToString(d.oversold) \o " (Oversold)",
                           rsi.num, 65, FALSE,
                           "Potential reversal zone; watch for support bounces")>>
             ELSE IF rsi.num > d.overbought * Scale
             THEN <<Signal("RSI OVERBOUGHT", "RSI", BEARISH,
                           "RSI(" \o ToString(d.period) \o ") > "
                               \o ToString(d.overbought) \o " (Overbought)",
                           rsi.num, 65, FALSE,
                           "Potential reversal or pullback; watch for resistance")>>
             ELSE IF 40 * Scale <= rsi.num /\ rsi.num <= 60 * Scale
             THEN IF rsi.num > 55 * Scale
                  THEN <<Signal("RSI NEUTRAL", "RSI", MODERATE,
                                "RSI trending into overbought", rsi.num, 50,
                                FALSE, "")>>
                  ELSE IF rsi.num < 45 * Scale
                  THEN <<Signal("RSI NEUTRAL", "RSI", MODERATE,
                                "RSI trending into oversold", rsi.num, 50,
                                FALSE, "")>>
                  ELSE <<Signal("RSI NEUTRAL", "RSI", NEUTRAL,
                                "RSI in neutral zone", rsi.num, 50, FALSE, "")>>
             ELSE <<>>

\* the RSI detector as the aggregator sees it
RegisteredRsi(d, table) ==
    LET cols == IF table = <<>> THEN {} ELSE DOMAIN table[1]
    IN  IF rsi_col(d) \in cols
        THEN Detector("RSI (" \o ToString(d.period) \o ")", {rsi_col(d)}, "none",
                      RSISignalDetector_detect(d, table))
        ELSE Detector("RSI (" \o ToString(d.period) \o ")", {rsi_col(d)},
                      "KeyError", <<>>)

ScenarioBars == 60

MaxPattern == 3

\* the steps of Close from bar to bar repeat a pattern
RECURSIVE Walk(_, _, _)
Walk(start, pattern, n) ==
    IF n = 1 THEN <<start>>
    ELSE LET before == Walk(start, pattern, n - 1)
         IN  Append(before,
                    before[n - 1] + pattern[((n - 2) % Len(pattern)) + 1])

\* series that never fall start at 1, the others high enough to stay positive
UptrendSeries ==
    {Walk(IF \E k \in 1..Len(pattern) : pattern[k] < 0 THEN ScenarioBars + 2
          ELSE 1, pattern, ScenarioBars) :
        pattern \in UNION {[1..k -> {-1, 0, 1, 2}] : k \in 1..MaxPattern}}

\* RSI(14), OBV, SMA(10), SMA(20), with or without the EMA 10/20 crossover
UptrendGroups ==
    {<<RelativeStrengthIndex(14), OnBalanceVolume, SimpleMovingAverage(10),
       SimpleMovingAverage(20)>>,
     <<RelativeStrengthIndex(14), OnBalanceVolume, ColumnsOnly(
           "MA Crossover (EMA 10/20)", 20,
           {"EMA_10", "EMA_20", "MA_Cross_Direction"})>>}

InitUptrend ==
    /\ AggregatorIdle
    /\ QualityIdle
    /\ ScoreIdle
    /\ ConstructIdle
    /\ SharedIdle
    /\ RunIdle
    /\ last_call = "none"
    /\ group \in UptrendGroups
    /\ closes \in UptrendSeries
    /\ \E v \in 0..2 : volumes = List([i \in 1..Len(closes) |-> v])
    /\ market_data = Table(requires_columns, Len(closes))
    /\ result_table = NoResult
    /\ calculated = <<>>
    /\ subject = RSISignalDetector(14, 30, 70)
    /\ frame = <<>>
    /\ detected = <<>>

\* aggregator with the RSI detector and the 10/20 MA crossover detector
\* registered: aggregator.detect(result_table)
AggregateMomentum ==
    /\ last_call = "IndicatorGroup.execute"
    /\ \E ds \in {<<RegisteredRsi(subject, frame),
                    Registered(MovingAverageCrossoverDetector(10, 20), frame)>>} :
       \E run \in {SignalAggregator_detect(ds, Timeframe,
                       [empty |-> Empty(result_table),
                        columns |-> result_table.columns])} :
           /\ last_call' = "SignalAggregator.detect"
           /\ detectors' = ds
           /\ df' = [empty |-> Empty(result_table),
                     columns |-> result_table.columns]
           /\ invoked' = run.invoked
           /\ all_signals' = run.all_signals
           /\ raised' = run.raised
           /\ aggregation' = run.result
           /\ detected' = run.all_signals
    /\ UNCHANGED <<indVars, seriesVars, subject, frame, scenarioFrame>>

NextUptrend == Enrich \/ AggregateMomentum

SpecUptrend == InitUptrend /\ [][NextUptrend]_vars

\* Close rises at every bar and Volume is one positive number
StrictlyIncreasing ==
    /\ Len(closes) >= ScenarioBars
    /\ \A i \in 2..Len(closes) : closes[i] > closes[i - 1]
    /\ \A i \in 1..Len(volumes) : volumes[i] = volumes[1] /\ volumes[i] > 0

\* C16: on a series of strictly increasing Close with constant positive
\* Volume, once RSI(14), OBV and the moving averages are computed, RSI(14) on
\* the final bar is above 70, OBV increases strictly from bar to bar, and the
\* detectors emit neither an RSI oversold signal nor a bearish MA_CROSS signal.
C16_UptrendScenario ==
    (last_call = "SignalAggregator.detect" /\ StrictlyIncreasing) =>
        /\ frame[Len(frame)]["RSI_14"].kind = "num"
        /\ frame[Len(frame)]["RSI_14"].num > 70 * Scale
        /\ \A i \in 2..Len(frame) : frame[i]["OBV"].num > frame[i - 1]["OBV"].num
        /\ raised = "none"
        /\ \A i \in 1..Len(all_signals) :
               /\ all_signals[i].name # "RSI OVERSOLD"
               /\ ~(all_signals[i].category = "MA_CROSS"
                    /\ is_bearish(all_signals[i]))
        /\ \A i \in 1..Len(aggregation.signals) :
               /\ aggregation.signals[i].name # "RSI OVERSOLD"
               /\ ~(aggregation.signals[i].category = "MA_CROSS"
                    /\ is_bearish(aggregation.signals[i]))

\* a rising series with uneven steps was enriched with the SMA columns, both
\* detectors ran and the RSI detector reported the overbought reading
C16_Witness ==
    /\ last_call = "SignalAggregator.detect"
    /\ StrictlyIncreasing
    /\ \E i \in 3..Len(closes) : closes[i] - closes[i - 1] # closes[2] - closes[1]
    /\ Len(invoked) = 2
    /\ \E i \in 1..Len(aggregation.signals) :
           aggregation.signals[i].name = "RSI OVERBOUGHT"

-----------------------------------------------------------------------------
(* The constructors of the indicators (ma_signals.py, momentum-signals.py) and
   of the signal detectors (signals/ma_signals.py, signals/momentum_signals.py),
   called with integer periods, valid or not, and execute() of what they
   built. *)

MaxPeriod == 2

PeriodValues == -1..MaxPeriod

\* "none", or the exception __init__ raises
SimpleMovingAverage_init(p) ==
    IF p.period <= 0 THEN "ValueError" ELSE "none"

RelativeStrengthIndex_init(p) ==
    IF p.period <= 0 THEN "ValueError" ELSE "none"

MovingAverageCrossover_init(p) ==
    IF p.fast_period <= 0 THEN "ValueError"
    ELSE IF p.slow_period <= 0 THEN "ValueError"
    ELSE IF p.fast_period >= p.slow_period THEN "ValueError"
    ELSE IF p.ma_type \notin {"sma", "ema"} THEN "ValueError"
    ELSE "none"

\* the detector constructors store their arguments and check nothing
MovingAverageCrossoverDetector_init(p) == "none"

RSISignalDetector_init(p) == "none"

IndicatorClasses ==
    {"SimpleMovingAverage", "RelativeStrengthIndex", "MovingAverageCrossover"}

DetectorClasses == {"MovingAverageCrossoverDetector", "RSISignalDetector"}

\* the constructor calls of the model
ConstructorCalls ==
    {[class |-> c, period |-> n] :
        c \in {"SimpleMovingAverage", "RelativeStrengthIndex", "RSISignalDetector"},
        n \in PeriodValues}
    \cup {[class |-> "MovingAverageCrossover", fast_period |-> f,
           slow_period |-> s, ma_type |-> ty] :
             f \in PeriodValues, s \in PeriodValues, ty \in {"ema", "wma"}}
    \cup {[class |-> "MovingAverageCrossoverDetector", fast_period |-> f,
           slow_period |-> s] : f \in PeriodValues, s \in PeriodValues}

init(p) ==
    CASE p.class = "SimpleMovingAverage" -> SimpleMovingAverage_init(p)
      [] p.class = "RelativeStrengthIndex" -> RelativeStrengthIndex_init(p)
      [] p.class = "MovingAverageCrossover" -> MovingAverageCrossover_init(p)
      [] p.class = "MovingAverageCrossoverDetector" ->
             MovingAverageCrossoverDetector_init(p)
      [] p.class = "RSISignalDetector" -> RSISignalDetector_init(p)

\* the object a constructor call leaves behind when it raises nothing
Constructed(p) ==
    CASE p.class = "SimpleMovingAverage" -> SimpleMovingAverage(p.period)
      [] p.class = "RelativeStrengthIndex" -> RelativeStrengthIndex(p.period)
      [] p.class = "MovingAverageCrossover" ->
             MovingAverageCrossover(p.fast_period, p.slow_period)
      [] p.class = "MovingAverageCrossoverDetector" ->
             MovingAverageCrossoverDetector(p.fast_period, p.slow_period)
      [] p.class = "RSISignalDetector" -> RSISignalDetector(p.period, 30, 70)

\* a row holding SMA_n and RSI_n for every period n an indicator can have
IndicatorRow(sma, rsi) ==
    [c \in {"SMA_" \o ToString(n) : n \in 1..MaxPeriod}
             \cup {"RSI_" \o ToString(n) : n \in 1..MaxPeriod} |->
        IF \E n \in 1..MaxPeriod : c = "SMA_" \o ToString(n)
        THEN Num(sma[CHOOSE n \in 1..MaxPeriod : c = "SMA_" \o ToString(n)])
        ELSE Num(rsi * Scale)]

\* two-bar tables on which the short averages cross the long ones
ConstructFrames ==
    {<<IndicatorRow([n \in 1..MaxPeriod |-> n], r1),
       IndicatorRow([n \in 1..MaxPeriod |-> MaxPeriod + 1 - n], r2)>> :
        r1 \in {20, 50}, r2 \in {20, 50, 80}}
    \cup {<<IndicatorRow([n \in 1..MaxPeriod |-> MaxPeriod + 1 - n], r1),
            IndicatorRow([n \in 1..MaxPeriod |-> n], r2)>> :
             r1 \in {20, 50}, r2 \in {20, 50, 80}}

constructFrame == <<detectors, df, quality_min, invoked, all_signals,
                    aggregation, quality_result, analysis, qualVars, scoreVars,
                    group, result_table, calculated, seriesVars, sharedVars, runVars>>

InitConstruct ==
    /\ AggregatorIdle
    /\ QualityIdle
    /\ ScoreIdle
    /\ SeriesIdle
    /\ SharedIdle
    /\ RunIdle
    /\ ConstructIdle
    /\ last_call = "none"
    /\ group = <<>>
    /\ market_data \in {Table(requires_columns, 60), Table(requires_columns, 1)}
    /\ result_table = NoResult
    /\ calculated = <<>>
    /\ subject = NoResult
    /\ frame \in ConstructFrames
    /\ detected = <<>>

\* subject = Class(p), p being the keyword arguments
Construct(p) ==
    /\ last_call' = "__init__"
    /\ params' = p
    /\ raised' = init(p)
    /\ subject' = IF init(p) = "none" THEN Constructed(p) ELSE NoResult
    /\ detected' = <<>>
    /\ UNCHANGED <<market_data, frame, constructFrame>>

\* subject.execute(table), subject being an indicator or a detector
ExecuteConstructed ==
    /\ subject # NoResult
    /\ last_call' = "execute"
    /\ IF params.class \in IndicatorClasses
       THEN \E r \in {IndicatorBase_execute(subject, market_data)} :
                /\ raised' = r.exc
                /\ detected' = <<>>
       ELSE \E r \in {execute(IF params.class = "RSISignalDetector"
                              THEN RegisteredRsi(subject, frame)
                              ELSE Registered(subject, frame),
                              [empty |-> FALSE,
                               columns |-> BaseColumns \cup DOMAIN frame[1]])} :
                /\ raised' = r.exc
                /\ detected' = r.signals
    /\ UNCHANGED <<subject, params, market_data, frame, constructFrame>>

NextConstruct ==
    \/ \E p \in ConstructorCalls : Construct(p)
    \/ ExecuteConstructed

SpecConstruct == InitConstruct /\ [][NextConstruct]_vars

\* a non-positive period, or a fast period that is not below the slow one
InvalidParameters(p) ==
    \/ "period" \in DOMAIN p /\ p.period <= 0
    \/ /\ "fast_period" \in DOMAIN p
       /\ \/ p.fast_period <= 0
          \/ p.slow_period <= 0
          \/ p.fast_period >= p.slow_period

\* C17: a constructor of an indicator or of a signal detector called with an
\* invalid parameter (a non-positive period, or a fast period >= the slow
\* period) raises at once and leaves no object, so execute() never runs on an
\* object holding such parameters.
C17_InvalidParametersRaiseAtConstruction ==
    (params # NoResult /\ InvalidParameters(params)) =>
        /\ subject = NoResult
        /\ last_call = "__init__"
        /\ raised # "none"

-----------------------------------------------------------------------------
(* indicators/registry.py: IndicatorRegistry (a class-level dictionary);
   analyzer/pipeline.py: get_cache (a module-level cache).  Several analyses,
   each for its own (symbol, timeframe), call them in any order. *)

MaxAnalyses == 2

Analyses == 1..MaxAnalyses

\* the (symbol, timeframe) of an analysis
AnalysisInput(a) == [symbol |-> "SYM" \o ToString(a), interval |-> "1d"]

\* the indicator class an analysis brings along
CustomClass(a) == "CustomIndicator" \o ToString(a)

\* IndicatorRegistry.register(key, indicator_class) on the dictionary reg
register(reg, key, indicator_class) ==
    IF key \in DOMAIN reg
    THEN [exc |-> "ConfigurationError", reg |-> reg]
    ELSE [exc |-> "none", reg |-> reg @@ (key :> indicator_class)]

\* IndicatorRegistry.create(indicator_key): the class instantiated
create(reg, indicator_key) ==
    IF indicator_key \notin DOMAIN reg
    THEN [exc |-> "ConfigurationError", class |-> ""]
    ELSE [exc |-> "none", class |-> reg[indicator_key]]

RECURSIVE create_multiple(_, _)
\* IndicatorRegistry.create_multiple(config): the first failure is re-raised
create_multiple(reg, keys) ==
    IF keys = <<>> THEN [exc |-> "none", indicators |-> <<>>]
    ELSE LET first == create(reg, Head(keys))
             rest == create_multiple(reg, Tail(keys))
         IN  IF first.exc # "none"
             THEN [exc |-> first.exc, indicators |-> <<>>]
             ELSE IF rest.exc # "none" THEN rest
             ELSE [exc |-> "none",
                   indicators |-> <<first.class>> \o rest.indicators]

\* get_cache(ttl_seconds): the global cache, created on the first call
get_cache(current, ttl_seconds) ==
    IF current = NoResult THEN [ttl |-> ttl_seconds, entries |-> {}] ELSE current

\* AnalysisCache._cache_key(symbol, interval, enable_ai=False)
_cache_key(symbol, interval) == Upper(symbol) \o ":" \o interval \o ":basic"

AnalysisConfigs == {<<"sma", "rsi">>, <<"sma", "custom">>}

TtlRequests == {60, 300}

sharedFrame == <<aggVars, qualVars, scoreVars, indVars, detVars, seriesVars,
                 constructVars, runVars>>

InitShared ==
    /\ AggregatorIdle
    /\ last_call = "none"
    /\ QualityIdle
    /\ ScoreIdle
    /\ IndicatorsIdle
    /\ DetectorsIdle
    /\ SeriesIdle
    /\ ConstructIdle
    /\ RunIdle
    /\ _INDICATORS = BuiltinIndicators
    /\ _global_cache = NoResult
    /\ analyses \in [Analyses -> {[config |-> c,
                                   ttl_seconds |-> n, registered |-> "no",
                                   suite |-> NoResult, cache |-> NoResult,
                                   cached |-> FALSE] :
                                     c \in AnalysisConfigs, n \in TtlRequests}]

\* analysis a: IndicatorRegistry.register("custom", CustomClass(a))
Register(a) ==
    /\ analyses[a].registered = "no"
    /\ analyses[a].suite = NoResult
    /\ \E r \in {register(_INDICATORS, "custom", CustomClass(a))} :
           /\ _INDICATORS' = r.reg
           /\ analyses' = [analyses EXCEPT ![a].registered =
                              IF r.exc = "none" THEN "yes" ELSE r.exc]
    /\ UNCHANGED <<_global_cache, sharedFrame>>

\* analysis a: IndicatorRegistry.create_multiple(config)
CreateSuite(a) ==
    /\ analyses[a].suite = NoResult
    /\ analyses' = [analyses EXCEPT ![a].suite =
                       create_multiple(_INDICATORS, analyses[a].config)]
    /\ UNCHANGED <<_INDICATORS, _global_cache, sharedFrame>>

\* analysis a: cache = get_cache(ttl_seconds)
GetCache(a) ==
    /\ analyses[a].cache = NoResult
    /\ \E c \in {get_cache(_global_cache, analyses[a].ttl_seconds)} :
           /\ _global_cache' = c
           /\ analyses' = [analyses EXCEPT ![a].cache = [ttl |-> c.ttl]]
    /\ UNCHANGED <<_INDICATORS, sharedFrame>>

\* analysis a: cache.set(symbol, interval, result), well below max_size
CacheSet(a) ==
    /\ analyses[a].cache # NoResult
    /\ ~analyses[a].cached
    /\ _global_cache' =
           [_global_cache EXCEPT !.entries =
               @ \cup {_cache_key(AnalysisInput(a).symbol,
                                  AnalysisInput(a).interval)}]
    /\ analyses' = [analyses EXCEPT ![a].cached = TRUE]
    /\ UNCHANGED <<_INDICATORS, sharedFrame>>

NextShared ==
    \E a \in Analyses : Register(a) \/ CreateSuite(a) \/ GetCache(a) \/ CacheSet(a)

SpecShared == InitShared /\ [][NextShared]_vars

\* the dictionary an analysis would read had it run alone
OwnRegistry(a) ==
    IF analyses[a].registered = "no" THEN BuiltinIndicators
    ELSE BuiltinIndicators @@ ("custom" :> CustomClass(a))

\* C18: analyses for different (symbol, timeframe) inputs share no mutable
\* state: what an analysis gets from register, from creating its indicators
\* and from get_cache is what it would get running alone, whatever the other
\* analyses did before.
C18_AnalysesDoNotInterfere ==
    \A a \in Analyses :
        /\ analyses[a].registered \in {"no", "yes"}
        /\ analyses[a].suite # NoResult =>
               analyses[a].suite = create_multiple(OwnRegistry(a), analyses[a].config)
        /\ analyses[a].cache # NoResult =>
               analyses[a].cache.ttl = analyses[a].ttl_seconds

-----------------------------------------------------------------------------
(* signals/ma_signals.py: MovingAveragePositioningDetector and
   MovingAverageRibbonDetector, which read the last row only. *)

\* self.periods = tuple(sorted(periods))
MovingAveragePositioningDetector(periods) ==
    [class |-> "MovingAveragePositioningDetector",
     periods |-> Sorted(periods, periods, FALSE)]

MovingAverageRibbonDetector(periods) ==
    [class |-> "MovingAverageRibbonDetector",
     periods |-> Sorted(periods, periods, FALSE)]

sma_col(period) == "SMA_" \o ToString(period)

RECURSIVE DefinedMAs(_, _)
\* the loop over self.periods: the MA values _safe_float accepts, in order
DefinedMAs(periods, current) ==
    IF periods = <<>> THEN <<>>
    ELSE LET value == _safe_float(current[sma_col(Head(periods))])
         IN  IF value # PyNone
             THEN <<value.num>> \o DefinedMAs(Tail(periods), current)
             ELSE DefinedMAs(Tail(periods), current)

\* MovingAveragePositioningDetector.detect
MovingAveragePositioningDetector_detect(d, table) ==
    IF Len(table) < 1 THEN <<>>
    ELSE LET current == table[Len(table)]
             close == _safe_float(current["Close"])
             mas == DefinedMAs(d.periods, current)
         IN  IF close = PyNone THEN <<>>
             ELSE IF mas = <<>> THEN <<>>
             ELSE IF \A i \in 1..Len(mas) : close.num > mas[i]
             THEN <<Signal("PRICE ABOVE ALL MAs", "MA_POSITION", BULLISH,
                           "Price is above all moving averages",
                           close.num, 80, FALSE,
                           "Strong uptrend; favor long positions")>>
             ELSE IF \A i \in 1..Len(mas) : close.num < mas[i]
             THEN <<Signal("PRICE BELOW ALL MAs", "MA_POSITION", BEARISH,
                           "Price is below all moving averages",
                           close.num, 80, FALSE,
                           "Strong downtrend; favor short positions")>>
             ELSE <<>>

RECURSIVE SumOf(_)
SumOf(s) == IF s = <<>> THEN 0 ELSE Head(s) + SumOf(Tail(s))

MaxOf(s) == CHOOSE x \in {s[i] : i \in 1..Len(s)} : \A i \in 1..Len(s) : s[i] <= x
MinOf(s) == CHOOSE x \in {s[i] : i \in 1..Len(s)} : \A i \in 1..Len(s) : s[i] >= x

\* MovingAverageRibbonDetector.detect: [exc, signals].  spread_ratio < 0.02 is
\* total_range * 100 < 2 * close for a positive close, and the other way round
\* for a negative one; a zero close divides by zero.
MovingAverageRibbonDetector_detect(d, table) ==
    IF Len(table) < 1 THEN [exc |-> "none", signals |-> <<>>]
    ELSE LET current == table[Len(table)]
             mas == DefinedMAs(d.periods, current)
             total_range == MaxOf(mas) - MinOf(mas)
             close == _safe_float(current["Close"])
             Below(pct) == IF close.num > 0
                           THEN total_range * 100 < pct * close.num
                           ELSE total_range * 100 > pct * close.num
             Above(pct) == IF close.num > 0
                           THEN total_range * 100 > pct * close.num
                           ELSE total_range * 100 < pct * close.num
         IN  IF Len(mas) < 2 THEN [exc |-> "none", signals |-> <<>>]
             ELSE IF close = PyNone \/ total_range = 0
             THEN [exc |-> "none", signals |-> <<>>]
             ELSE IF close.num = 0
             THEN [exc |-> "ZeroDivisionError", signals |-> <<>>]
             ELSE IF Below(2)
             THEN [exc |-> "none", signals |->
                      <<Signal("MA RIBBON ALIGNED", "MA_RIBBON",
                               IF close.num * Len(mas) > SumOf(mas)
                               THEN STRONG_BULLISH ELSE STRONG_BEARISH,
                               "All " \o ToString(Len(d.periods))
                                   \o " MAs are tightly aligned",
                               (total_range * Scale) \div close.num, 85, FALSE,
                               IF close.num * Len(mas) > SumOf(mas)
                               THEN "Ribbon compressed upward; strong uptrend"
                               ELSE "Ribbon compressed downward; strong downtrend")>>]
             ELSE IF Above(5)
             THEN [exc |-> "none", signals |->
                      <<Signal("MA RIBBON SPREAD", "MA_RIBBON", NEUTRAL,
                               "MAs are spread apart (weak trend or transition)",
                               (total_range * Scale) \div close.num, 60, FALSE,
                               "Weak trend or consolidation; wait for ribbon compression")>>]
             ELSE [exc |-> "none", signals |-> <<>>]

AlignmentDetectors ==
    {MovingAveragePositioningDetector(<<50, 20>>),
     MovingAveragePositioningDetector(<<20, 50, 200>>),
     MovingAverageRibbonDetector(<<20, 10>>),
     MovingAverageRibbonDetector(<<10, 20, 50>>)}

MaCells == {NaN, Inf, Num(100), Num(101), Num(102), Num(105), Num(106)}

CloseCells == {NaN, Num(0), Num(100), Num(103), Num(200)}

\* the empty table and the one-row tables over Close and the detector's columns
AlignmentFrames(d) ==
    {<<>>} \cup
    {<<row>> : row \in
        {r \in [{"Close"} \cup {sma_col(d.periods[i]) : i \in 1..Len(d.periods)}
                   -> MaCells \cup CloseCells] :
            /\ r["Close"] \in CloseCells
            /\ \A i \in 1..Len(d.periods) : r[sma_col(d.periods[i])] \in MaCells}}

alignmentFrame == <<detectors, df, quality_min, invoked, all_signals,
                    aggregation, quality_result, analysis, qualVars, scoreVars,
                    indVars, seriesVars, constructVars, sharedVars, runVars>>

InitAlignment ==
    /\ AggregatorIdle
    /\ QualityIdle
    /\ ScoreIdle
    /\ IndicatorsIdle
    /\ SeriesIdle
    /\ ConstructIdle
    /\ SharedIdle
    /\ RunIdle
    /\ last_call = "none"
    /\ subject \in AlignmentDetectors
    /\ frame \in AlignmentFrames(subject)
    /\ detected = <<>>

\* MovingAveragePositioningDetector(periods).detect(frame)
PositioningDetect ==
    /\ subject.class = "MovingAveragePositioningDetector"
    /\ last_call' = "MovingAveragePositioningDetector.detect"
    /\ raised' = "none"
    /\ detected' = MovingAveragePositioningDetector_detect(subject, frame)
    /\ UNCHANGED <<subject, frame, alignmentFrame>>

\* MovingAverageRibbonDetector(periods).detect(frame)
RibbonDetect ==
    /\ subject.class = "MovingAverageRibbonDetector"
    /\ \E r \in {MovingAverageRibbonDetector_detect(subject, frame)} :
           /\ last_call' = "MovingAverageRibbonDetector.detect"
           /\ raised' = r.exc
           /\ detected' = r.signals
    /\ UNCHANGED <<subject, frame, alignmentFrame>>

NextAlignment == PositioningDetect \/ RibbonDetect

SpecAlignment == InitAlignment /\ [][NextAlignment]_vars

\* the configured MA columns of the last row
ConfiguredCells ==
    {frame[Len(frame)][sma_col(subject.periods[i])] : i \in 1..Len(subject.periods)}

\* C19: the positioning detector emits its bullish signal only when the last
\* Close is strictly greater than the last-bar value of every configured MA
\* column, its bearish signal only when the Close is strictly less than all of
\* them, and no signal in every other situation: price between the MAs, equal
\* to one, or a configured MA without a defined value.
C19_PositioningNeedsEveryMA ==
    (last_call = "MovingAveragePositioningDetector.detect" /\ frame # <<>>) =>
        LET close == frame[Len(frame)]["Close"]
            above == /\ close.kind = "num"
                     /\ \A c \in ConfiguredCells : c.kind = "num" /\ close.num > c.num
            below == /\ close.kind = "num"
                     /\ \A c \in ConfiguredCells : c.kind = "num" /\ close.num < c.num
        IN  /\ (\E i \in 1..Len(detected) : is_bullish(detected[i])) => above
            /\ (\E i \in 1..Len(detected) : is_bearish(detected[i])) => below
            /\ (~above /\ ~below) => detected = <<>>

\* C20: with a defined positive Close and at least two defined MA values on
\* the last bar, the ribbon detector emits exactly one MA RIBBON ALIGNED signal
\* when (max MA - min MA) / Close is below 2%, STRONG BULLISH if Close is above
\* the mean of the MAs and STRONG BEARISH otherwise, exactly one NEUTRAL
\* MA RIBBON SPREAD signal when the ratio is above 5%, and no signal in between.
C20_RibbonThresholds ==
    (/\ last_call = "MovingAverageRibbonDetector.detect"
     /\ frame # <<>>
     /\ frame[Len(frame)]["Close"].kind = "num"
     /\ frame[Len(frame)]["Close"].num > 0
     /\ Len(DefinedMAs(subject.periods, frame[Len(frame)])) >= 2) =>
        LET close == frame[Len(frame)]["Close"].num
            mas == DefinedMAs(subject.periods, frame[Len(frame)])
            spread == MaxOf(mas) - MinOf(mas)
        IN  /\ raised = "none"
            /\ spread * 100 < 2 * close =>
                   /\ Len(detected) = 1
                   /\ detected[1].name = "MA RIBBON ALIGNED"
                   /\ detected[1].strength =
                          IF close * Len(mas) > SumOf(mas)
                          THEN STRONG_BULLISH ELSE STRONG_BEARISH
            /\ spread * 100 > 5 * close =>
                   /\ Len(detected) = 1
                   /\ detected[1].name = "MA RIBBON SPREAD"
                   /\ detected[1].strength = NEUTRAL
            /\ (spread * 100 >= 2 * close /\ spread * 100 <= 5 * close) =>
                   detected = <<>>

-----------------------------------------------------------------------------
(* indicators/base.py, ma_signals.py: execute() on a table with values.  The
   table is one record per bar; calculate() works on a copy and assigns each
   of its columns, result[col] = ... *)

MaxMembers == 2

MaxRows == 4

\* an indicator whose calculate() also writes MA_Cross_Direction from two of
\* its columns
WithDirection(indicator, fast, slow) == indicator @@ [direction |-> <<fast, slow>>]

\* MovingAverageCrossover(fast_period, slow_period, ma_type="sma"):
\* Close.rolling(period).mean(), min_periods defaulting to the window
MovingAverageCrossoverSma(fast_period, slow_period) ==
    LET fast == "SMA_" \o ToString(fast_period)
        slow == "SMA_" \o ToString(slow_period)
    IN  WithDirection(
            WithSeries(
                Indicator("MA Crossover (SMA " \o ToString(fast_period) \o "/"
                              \o ToString(slow_period) \o ")",
                          slow_period, {fast, slow, "MA_Cross_Direction"},
                          {fast, slow, "MA_Cross_Direction"}, "none"),
                {Rolling(fast, fast_period, fast_period),
                 Rolling(slow, slow_period, slow_period)}),
            fast, slow)

\* (diff > 0).astype(int) - (diff < 0).astype(int), diff = fast - slow; a
\* comparison with NaN is False
cross_direction(fast, slow) ==
    IF fast.kind # "num" \/ slow.kind # "num" THEN Num(0)
    ELSE IF fast.num > slow.num THEN Num(1)
    ELSE IF fast.num < slow.num THEN Num(-1)
    ELSE Num(0)

\* result["Close"] as prices, result["Volume"]
ClosesOf(rows) == List([i \in 1..Len(rows) |-> rows[i]["Close"].num \div Scale])
VolumesOf(rows) == List([i \in 1..Len(rows) |-> rows[i]["Volume"].num \div Scale])

\* calculate(df) of the moving-average indicators: result = df.copy(), then
\* one assignment per column
calculate_rows(indicator, rows) ==
    LET written == {c.column : c \in indicator.series}
        Col(name) == CHOOSE c \in indicator.series : c.column = name
        mas == [i \in 1..Len(rows) |->
                   [name \in DOMAIN rows[i] \cup indicator.adds |->
                       IF name \in written
                       THEN ColumnCell(Col(name), ClosesOf(rows),
                                       VolumesOf(rows), i)
                       \* a column whose values are not computed here
                       ELSE IF name \in indicator.adds THEN Num(0)
                       ELSE rows[i][name]]]
    IN  IF "direction" \notin DOMAIN indicator THEN List(mas)
        ELSE List([i \in 1..Len(rows) |->
                     [name \in DOMAIN mas[i] \cup {"MA_Cross_Direction"} |->
                         IF name = "MA_Cross_Direction"
                         THEN cross_direction(mas[i][indicator.direction[1]],
                                              mas[i][indicator.direction[2]])
                         ELSE mas[i][name]]])

ColumnsOf(rows) == IF rows = <<>> THEN {} ELSE DOMAIN rows[1]

\* IndicatorBase.execute on rows: [exc, rows, calculated]
execute_rows(indicator, rows) ==
    LET r == IndicatorBase_execute(indicator, Table(ColumnsOf(rows), Len(rows)))
    IN  [exc |-> r.exc, calculated |-> r.calculated,
         rows |-> IF r.exc = "none" THEN calculate_rows(indicator, rows) ELSE rows]

RECURSIVE GroupRows(_, _)
\* IndicatorGroup.execute on rows: the loop, result being acc.rows
GroupRows(indicators, acc) ==
    IF indicators = <<>> THEN acc
    ELSE LET r == execute_rows(Head(indicators), acc.rows)
             ran == IF r.calculated
                    THEN Append(acc.calculated, Head(indicators).name)
                    ELSE acc.calculated
         IN  IF r.exc = "none"
             THEN GroupRows(Tail(indicators),
                            [acc EXCEPT !.rows = r.rows, !.calculated = ran])
             ELSE IF GroupCatches(r.exc)
             THEN GroupRows(Tail(indicators), [acc EXCEPT !.calculated = ran])
             ELSE [acc EXCEPT !.exc = r.exc, !.calculated = ran]

\* result = df.copy(); the loop; return result
group_execute_rows(indicators, rows) ==
    GroupRows(indicators, [exc |-> "none", rows |-> rows, calculated |-> <<>>])

EnrichPool ==
    {SimpleMovingAverage(2), SimpleMovingAverage(3), ExponentialMovingAverage(2),
     WithDirection(MovingAverageCrossover(2, 3), "EMA_2", "EMA_3"),
     MovingAverageCrossoverSma(2, 3),
     \* a calculate() that raises
     WithSeries(Indicator("Relative Strength Index (2)", 3, {"RSI_2"}, {},
                          "ZeroDivisionError"), {})}

\* OHLCV tables of 0 to MaxRows bars
EnrichTables ==
    {List([i \in 1..n |->
              [Open |-> Num(c[i] * Scale), High |-> Num(c[i] * Scale),
               Low |-> Num(c[i] * Scale), Close |-> Num(c[i] * Scale),
               Volume |-> Num(Scale)]]) :
        n \in 0..MaxRows, c \in [1..MaxRows -> {1, 2}]}

enrichFrame == <<detectors, df, quality_min, invoked, all_signals, aggregation,
                 quality_result, analysis, qualVars, scoreVars, result_table,
                 subject, detected, seriesVars, constructVars, sharedVars,
                 analyzerVars,
    pipelineVars,
    multiVars,
    providerVars,
    cacheVars>>

InitEnrich ==
    /\ CacheIdle
    /\ ProviderIdle
    /\ MultiIdle
    /\ PipelineIdle
    /\ AnalyzerIdle
    /\ AggregatorIdle
    /\ QualityIdle
    /\ ScoreIdle
    /\ SeriesIdle
    /\ ConstructIdle
    /\ SharedIdle
    /\ last_call = "none"
    /\ group \in UNION {[1..n -> EnrichPool] : n \in 0..MaxMembers}
    /\ frame \in EnrichTables
    /\ market_data = frame
    /\ result_table = NoResult
    /\ calculated = <<>>
    /\ subject = NoResult
    /\ detected = <<>>
    /\ enriched = NoResult

\* IndicatorGroup(name, group).execute(frame); frame is the caller's table
\* after the call, market_data the table as it was handed in
ExecuteGroupRows ==
    \E r \in {group_execute_rows(group, frame)} :
        /\ last_call' = "IndicatorGroup.execute"
        /\ raised' = r.exc
        /\ enriched' = IF r.exc = "none" THEN r.rows ELSE NoResult
        /\ calculated' = r.calculated
        /\ market_data' = frame
        /\ UNCHANGED <<group, frame, enrichFrame>>

\* indicator.execute(frame)
ExecuteRows(indicator) ==
    \E r \in {execute_rows(indicator, frame)} :
        /\ last_call' = "IndicatorBase.execute"
        /\ raised' = r.exc
        /\ enriched' = IF r.exc = "none" THEN r.rows ELSE NoResult
        /\ calculated' = IF r.calculated THEN <<indicator.name>> ELSE <<>>
        /\ market_data' = frame
        /\ UNCHANGED <<group, frame, enrichFrame>>

NextEnrich ==
    \/ ExecuteGroupRows
    \/ \E indicator \in EnrichPool : ExecuteRows(indicator)

SpecEnrich == InitEnrich /\ [][NextEnrich]_vars

\* the table after the first k members of the group
AfterMember(k) == group_execute_rows(SubSeq(group, 1, k), market_data).rows

\* every column of table before keeps its cells in table after
KeepsColumns(before, after) ==
    /\ Len(after) = Len(before)
    /\ \A i \in 1..Len(before) :
           \A name \in DOMAIN before[i] :
               name \in DOMAIN after[i] /\ after[i][name] = before[i][name]

\* C21: execute() of an indicator and of a group only adds columns: the
\* returned table has the rows of the input, every column present before a
\* member ran (the OHLCV columns and the columns of earlier members) keeps its
\* values, and the caller's table is left as it was.
C21_ExecuteOnlyAddsColumns ==
    /\ last_call \in {"IndicatorGroup.execute", "IndicatorBase.execute"} =>
           frame = market_data
    /\ (last_call = "IndicatorBase.execute" /\ raised = "none") =>
           KeepsColumns(market_data, enriched)
    /\ (last_call = "IndicatorGroup.execute" /\ raised = "none") =>
           /\ KeepsColumns(market_data, enriched)
           /\ \A k \in 1..Len(group) :
                  KeepsColumns(AfterMember(k - 1), AfterMember(k))

-----------------------------------------------------------------------------
(* analyzer/core.py: MultiTimeframeAnalyzer.fetch_data, calculate_indicators,
   detect_signals, _extract_current_indicators *)

MaxCalls == 3

\* IndicatorFactory.create_trend_suite()
create_trend_suite ==
    <<SimpleMovingAverage(20), SimpleMovingAverage(50), SimpleMovingAverage(200),
      ColumnsOnly("Average Directional Index (14)", 28,
                  {"ADX_14", "Plus_DI_14", "Minus_DI_14"}),
      ColumnsOnly("Average True Range (14)", 15, {"ATR_14", "TR_14"})>>

\* IndicatorFactory.create_momentum_suite()
create_momentum_suite ==
    <<RelativeStrengthIndex(14),
      ColumnsOnly("MACD (12,26,9)", 26, {"MACD", "MACD_Signal", "MACD_Histogram"}),
      ColumnsOnly("Stochastic (14,3,3)", 14, {"Stoch_K", "Stoch_D"})>>

\* IndicatorFactory.create_volume_suite()
create_volume_suite ==
    <<ColumnsOnly("Volume Moving Average (20)", 20, {"Volume_MA_20"}),
      OnBalanceVolume>>

\* IndicatorFactory.create_intraday_suite()
create_intraday_suite ==
    <<ExponentialMovingAverage(9), ExponentialMovingAverage(21),
      RelativeStrengthIndex(7),
      ColumnsOnly("MACD (8,17,9)", 17, {"MACD", "MACD_Signal", "MACD_Histogram"}),
      ColumnsOnly("Volume Moving Average (10)", 10, {"Volume_MA_10"})>>

\* IndicatorFactory.create_swing_suite()
create_swing_suite ==
    <<SimpleMovingAverage(20), SimpleMovingAverage(50),
      ExponentialMovingAverage(12), RelativeStrengthIndex(14),
      ColumnsOnly("MACD (12,26,9)", 26, {"MACD", "MACD_Signal", "MACD_Histogram"}),
      ColumnsOnly("Average Directional Index (14)", 28,
                  {"ADX_14", "Plus_DI_14", "Minus_DI_14"})>>

\* _create_indicator_group(factory_name)
_create_indicator_group(factory_name) ==
    CASE factory_name = "trend" -> create_trend_suite
      [] factory_name = "momentum" -> create_momentum_suite
      [] factory_name = "volume" -> create_volume_suite
      [] factory_name = "intraday" -> create_intraday_suite
      [] factory_name = "swing" -> create_swing_suite
      \* create_all_indicators(), its crossover, RSI and OBV with their values
      [] OTHER -> [k \in 1..Len(create_all_indicators) |->
                      CASE k = 3 -> WithDirection(create_all_indicators[k],
                                                  "EMA_10", "EMA_20")
                        [] k = 5 -> RelativeStrengthIndex(14)
                        [] k = 10 -> OnBalanceVolume
                        [] OTHER -> create_all_indicators[k]]

\* round(value, 4), in units of 1/10000
Round4(n) == (n \div Scale) * 10000 + (2 * (n % Scale) * 10000 + Scale) \div (2 * Scale)

\* _safe_value: None for NaN (and for a missing key), else the rounded float
_safe_value(value) ==
    IF value.kind = "nan" THEN PyNone
    ELSE IF value.kind = "inf" THEN [type |-> "float", str |-> "inf", num |-> 0]
    ELSE PyFloat(Round4(value.num))

\* last_row.get(col)
RowGet(row, col) == IF col \in DOMAIN row THEN row[col] ELSE NaN

\* _extract_current_indicators(): {} for no or empty data
_extract_current_indicators(rows) ==
    IF rows = NoResult \/ rows = <<>> THEN <<>>
    ELSE LET last_row == rows[Len(rows)]
             listed == {"RSI", "MACD", "MACD_Signal", "ATR", "ADX", "OBV",
                        "SMA_10", "SMA_20", "SMA_50", "SMA_100", "SMA_200"}
         IN  [key \in {"Current_Price", "Open", "High", "Low", "Volume"}
                         \cup (listed \cap DOMAIN last_row) |->
                 IF key = "Current_Price" THEN _safe_value(RowGet(last_row, "Close"))
                 ELSE _safe_value(RowGet(last_row, key))]

\* fetch_data(): what the provider and the validation pipeline do is the
\* outcome; [raised, data]
fetch_data(outcome, fetched, data) ==
    IF outcome = "ok" THEN [raised |-> "none", data |-> fetched]
    ELSE IF outcome \in {"DataFetchError", "DataValidationError",
                         "InsufficientDataError"}
    THEN [raised |-> outcome, data |-> data]
    \* DataFetchError(..., source="data_provider"): no such parameter
    ELSE [raised |-> "TypeError", data |-> data]

\* calculate_indicators(): [raised, data]
calculate_indicators(indicators, data) ==
    IF data = NoResult THEN [raised |-> "AnalyzerError", data |-> data]
    ELSE LET r == group_execute_rows(indicators, data)
         IN  IF r.exc = "none" THEN [raised |-> "none", data |-> r.rows]
             \* AnalyzerError(..., step="calculate_indicators"): no such parameter
             ELSE [raised |-> "TypeError", data |-> data]

\* a detector whose signals carry the type of their value, which is what the
\* quality pipeline looks at
Typed(detector) ==
    [detector EXCEPT !.emits = List([i \in 1..Len(detector.emits) |->
                                       [detector.emits[i] EXCEPT !.value = "float"]])]

\* the aggregator's detectors, on the analyzer's table
AnalyzerDetectors(data) ==
    <<Typed(Registered(MovingAverageCrossoverDetector(10, 20), data)),
      Typed(RegisteredRsi(RSISignalDetector(14, 30, 70), data))>>

\* detect_signals(): [raised, run, quality_result, result]
MultiTimeframeAnalyzer_detect_signals(data) ==
    IF data = NoResult
    THEN [raised |-> "AnalyzerError", run |-> NoResult,
          quality_result |-> NoResult, result |-> NoResult]
    ELSE LET r == detect_signals(AnalyzerDetectors(data), Timeframe,
                                 [empty |-> data = <<>>, columns |-> ColumnsOf(data)],
                                 DefaultPipeline)
         IN  IF r.raised # "none"
             THEN [raised |-> r.raised, run |-> r.run,
                   quality_result |-> NoResult, result |-> NoResult]
             ELSE [raised |-> "none", run |-> r.run,
                   quality_result |-> r.quality_result,
                   result |-> [signals |-> r.run.result,
                               indicators |-> _extract_current_indicators(data),
                               bars_analyzed |-> Len(data)]]

\* 20 bars at one price followed by up to MaxTail more
AnalyzerSeries ==
    {List([i \in 1..20 |-> c]) \o tail :
        c \in 1..2, tail \in UNION {[1..k -> 1..2] : k \in 0..MaxTail}}

\* the OHLCV table the provider returns for a price series
MarketRows(prices) ==
    List([i \in 1..Len(prices) |->
             [Open |-> Num(prices[i] * Scale), High |-> Num(prices[i] * Scale),
              Low |-> Num(prices[i] * Scale), Close |-> Num(prices[i] * Scale),
              Volume |-> Num(Scale)]])

FetchOutcomes ==
    {"ok", "DataFetchError", "DataValidationError", "InsufficientDataError",
     "ConnectionError"}

analyzerFrame == <<detectors, df, quality_min, qualVars, scoreVars,
                   market_data, result_table, calculated, detVars, volumes,
                   constructVars, sharedVars, enrichVars,
    pipelineVars,
    multiVars,
    providerVars,
    cacheVars>>

\* MultiTimeframeAnalyzer(symbol, interval, indicator_factory=...)
InitAnalyzer ==
    /\ CacheIdle
    /\ ProviderIdle
    /\ MultiIdle
    /\ PipelineIdle
    /\ QualityIdle
    /\ ScoreIdle
    /\ DetectorsIdle
    /\ ConstructIdle
    /\ SharedIdle
    /\ detectors = <<>>
    /\ df = [empty |-> TRUE, columns |-> {}]
    /\ quality_min = DefaultMinQuality
    /\ invoked = <<>>
    /\ all_signals = <<>>
    /\ raised = "none"
    /\ aggregation = NoResult
    /\ quality_result = NoResult
    /\ analysis = NoResult
    /\ last_call = "none"
    /\ \E factory_name \in {"comprehensive", "trend"} :
           group = _create_indicator_group(factory_name)
    /\ market_data = NoResult
    /\ result_table = NoResult
    /\ calculated = <<>>
    /\ closes \in AnalyzerSeries
    /\ volumes = <<>>
    /\ EnrichIdle
    /\ _data = NoResult
    /\ trace = <<>>

Called(call, exc) == Append(trace, [call |-> call, raised |-> exc])

\* analyzer.fetch_data()
FetchData(outcome) ==
    /\ Len(trace) < MaxCalls
    /\ \E r \in {fetch_data(outcome, MarketRows(closes), _data)} :
           /\ last_call' = "fetch_data"
           /\ raised' = r.raised
           /\ _data' = r.data
           /\ trace' = Called("fetch_data", r.raised)
    /\ UNCHANGED <<invoked, all_signals, aggregation, quality_result, analysis,
                   group, closes, analyzerFrame>>

\* analyzer.calculate_indicators()
CalculateIndicators ==
    /\ Len(trace) < MaxCalls
    /\ \E r \in {calculate_indicators(group, _data)} :
           /\ last_call' = "calculate_indicators"
           /\ raised' = r.raised
           /\ _data' = r.data
           /\ trace' = Called("calculate_indicators", r.raised)
    /\ UNCHANGED <<invoked, all_signals, aggregation, quality_result, analysis,
                   group, closes, analyzerFrame>>

\* analyzer.detect_signals()
AnalyzerDetectSignals ==
    /\ Len(trace) < MaxCalls
    /\ \E r \in {MultiTimeframeAnalyzer_detect_signals(_data)} :
           /\ last_call' = "detect_signals"
           /\ raised' = r.raised
           /\ invoked' = IF r.run = NoResult THEN invoked ELSE r.run.invoked
           /\ all_signals' = IF r.run = NoResult THEN all_signals
                             ELSE r.run.all_signals
           /\ aggregation' = IF r.run = NoResult THEN aggregation ELSE r.run.result
           /\ quality_result' = IF r.raised = "none" THEN r.quality_result
                                ELSE quality_result
           /\ analysis' = IF r.raised = "none" THEN r.result ELSE analysis
           /\ trace' = Called("detect_signals", r.raised)
    /\ UNCHANGED <<_data, group, closes, analyzerFrame>>

NextAnalyzer ==
    \/ \E outcome \in FetchOutcomes : FetchData(outcome)
    \/ CalculateIndicators
    \/ AnalyzerDetectSignals

SpecAnalyzer == InitAnalyzer /\ [][NextAnalyzer]_vars

\* some call before position k was to this operation and raised nothing
SucceededBefore(call, k) ==
    \E j \in 1..(k - 1) : trace[j].call = call /\ trace[j].raised = "none"

\* C22: the indicator snapshot of the AnalysisResult maps every column the
\* indicator group added to the table to the column's last-row value, a NaN
\* value to None.
C22_SnapshotHoldsEveryAddedColumn ==
    (/\ last_call = "detect_signals"
     /\ raised = "none"
     /\ SucceededBefore("calculate_indicators", Len(trace))) =>
        \A col \in ColumnsOf(_data) \ BaseColumns :
            /\ col \in DOMAIN analysis.indicators
            /\ analysis.indicators[col] = _safe_value(_data[Len(_data)][col])

\* C23: the analyzer enforces the order fetch_data, calculate_indicators,
\* detect_signals: calculate_indicators raises AnalyzerError unless a
\* fetch_data call succeeded before it, detect_signals raises AnalyzerError
\* unless calculate_indicators was run before it, and the result stays None
\* until a detect_signals call succeeds.
C23_CallOrderEnforced ==
    /\ \A k \in 1..Len(trace) :
           /\ (trace[k].call = "calculate_indicators"
                   /\ ~SucceededBefore("fetch_data", k)) =>
                  trace[k].raised = "AnalyzerError"
           /\ (trace[k].call = "detect_signals"
                   /\ ~\E j \in 1..(k - 1) : trace[j].call = "calculate_indicators") =>
                  trace[k].raised = "AnalyzerError"
    /\ analysis # NoResult =>
           SucceededBefore("detect_signals", Len(trace) + 1)

-----------------------------------------------------------------------------
(* analyzer/pipeline.py: PipelineBuilder presets; signals/aggregator.py:
   DetectorFactory.  A detector is its metadata here: its name and the
   indicator columns it requires. *)

\* f"SMA_{p}" for p in periods
SmaColumns(periods) == {sma_col(periods[i]) : i \in 1..Len(periods)}

CrossoverMeta(fast_period, slow_period) ==
    Detector("MA Crossover (" \o ToString(fast_period) \o "/"
                 \o ToString(slow_period) \o ")",
             {sma_col(fast_period), sma_col(slow_period)}, "none", <<>>)

PositioningMeta(periods) ==
    Detector("MA Positioning", SmaColumns(periods), "none", <<>>)

RibbonMeta(periods) ==
    Detector("MA Ribbon (" \o ToString(Len(periods)) \o " MAs)",
             SmaColumns(periods), "none", <<>>)

RsiMeta(period) ==
    Detector("RSI (" \o ToString(period) \o ")", {"RSI_" \o ToString(period)},
             "none", <<>>)

MacdMeta == Detector("MACD", {"MACD", "MACD_Signal", "MACD_Histogram"}, "none", <<>>)

StochasticMeta(period) ==
    Detector("Stochastic (" \o ToString(period) \o ")", {"Stoch_K", "Stoch_D"},
             "none", <<>>)

FibonacciMeta(window) == Detector("Fibonacci", {}, "none", <<>>)

create_basic_detectors == <<CrossoverMeta(10, 20), RsiMeta(14), MacdMeta>>

create_comprehensive_detectors ==
    <<CrossoverMeta(10, 20), PositioningMeta(<<20, 50, 200>>),
      RibbonMeta(<<10, 20, 50, 100, 200>>), RsiMeta(14), MacdMeta,
      StochasticMeta(14), FibonacciMeta(50)>>

create_intraday_detectors == <<CrossoverMeta(5, 10), RsiMeta(7), MacdMeta>>

create_swing_detectors ==
    <<CrossoverMeta(10, 30), RibbonMeta(<<10, 20, 50, 100, 200>>), RsiMeta(14),
      MacdMeta, StochasticMeta(14)>>

create_trend_detectors ==
    <<RibbonMeta(<<20, 50, 100, 200>>), MacdMeta, FibonacciMeta(100)>>

\* _create_signal_aggregator(factory_name): the detectors added
_create_signal_aggregator(factory_name) ==
    CASE factory_name = "basic" -> create_basic_detectors
      [] factory_name = "intraday" -> create_intraday_detectors
      [] factory_name = "swing" -> create_swing_detectors
      [] factory_name = "trend" -> create_trend_detectors
      [] OTHER -> create_comprehensive_detectors

\* the presets of PipelineBuilder: indicator_factory, detector_factory
Presets ==
    [momentum_focused |-> [indicator_factory |-> "momentum", detector_factory |-> "basic"],
     trend_focused |-> [indicator_factory |-> "trend", detector_factory |-> "trend"],
     intraday |-> [indicator_factory |-> "intraday", detector_factory |-> "intraday"],
     swing |-> [indicator_factory |-> "swing", detector_factory |-> "swing"],
     comprehensive |-> [indicator_factory |-> "comprehensive",
                        detector_factory |-> "comprehensive"]]

\* numbers of bars around the indicators' minimum requirements
PresetBars == {0, 10, 14, 20, 28, 60, 200, 250}

presetFrame == <<quality_min, quality_result, analysis, qualVars, scoreVars,
                 detVars, seriesVars, sharedVars, enrichVars, analyzerVars,
    pipelineVars,
    multiVars,
    providerVars,
    cacheVars>>

\* builder.<preset>().build(): the analyzer's indicator group and detectors
InitPresets ==
    /\ CacheIdle
    /\ ProviderIdle
    /\ MultiIdle
    /\ PipelineIdle
    /\ QualityIdle
    /\ ScoreIdle
    /\ DetectorsIdle
    /\ SeriesIdle
    /\ SharedIdle
    /\ EnrichIdle
    /\ AnalyzerIdle
    /\ quality_min = DefaultMinQuality
    /\ quality_result = NoResult
    /\ analysis = NoResult
    /\ last_call = "none"
    /\ raised = "none"
    /\ params \in {Presets[name] : name \in DOMAIN Presets}
    /\ group = List(_create_indicator_group(params.indicator_factory))
    /\ detectors = _create_signal_aggregator(params.detector_factory)
    /\ \E rows \in PresetBars : market_data = Table(requires_columns, rows)
    /\ result_table = NoResult
    /\ calculated = <<>>
    /\ df = [empty |-> TRUE, columns |-> {}]
    /\ invoked = <<>>
    /\ all_signals = <<>>
    /\ aggregation = NoResult

\* the Calculate Indicators step: self.indicators.execute(self._data)
PresetCalculate ==
    /\ last_call = "none"
    /\ \E r \in {IndicatorGroup_execute(group, market_data)} :
           /\ last_call' = "IndicatorGroup.execute"
           /\ raised' = r.exc
           /\ result_table' = r.table
           /\ calculated' = r.calculated
    /\ UNCHANGED <<detectors, df, invoked, all_signals, aggregation, group,
                   market_data, params, presetFrame>>

\* the Detect Signals step: self.aggregator.detect(self._data)
PresetDetect ==
    /\ last_call = "IndicatorGroup.execute"
    /\ \E table \in {[empty |-> Empty(result_table),
                      columns |-> result_table.columns]} :
       \E run \in {SignalAggregator_detect(detectors, Timeframe, table)} :
           /\ last_call' = "SignalAggregator.detect"
           /\ df' = table
           /\ invoked' = run.invoked
           /\ all_signals' = run.all_signals
           /\ raised' = run.raised
           /\ aggregation' = run.result
    /\ UNCHANGED <<detectors, indVars, params, presetFrame>>

NextPresets == PresetCalculate \/ PresetDetect

SpecPresets == InitPresets /\ [][NextPresets]_vars

\* the table has the bars every indicator of the suite asks for
EnoughBars ==
    \A k \in 1..Len(group) : market_data.rows >= group[k].min_bars_required

\* C24: for the presets comprehensive, momentum, trend and swing, when the
\* table has enough bars for every indicator of the suite, every column a
\* detector of the set requires is among the columns the suite wrote, and no
\* detector of the preset is skipped.
C24_PresetDetectorsFindTheirColumns ==
    (/\ last_call = "SignalAggregator.detect"
     /\ params \in {Presets.comprehensive, Presets.momentum_focused,
                    Presets.trend_focused, Presets.swing}
     /\ EnoughBars) =>
        \A k \in 1..Len(detectors) :
            /\ detectors[k].required_indicators \subseteq result_table.columns
            /\ \E n \in 1..Len(invoked) : invoked[n] = detectors[k].name

-----------------------------------------------------------------------------
(* analyzer/pipeline.py: AnalysisPipeline.run and the step_handler decorator.
   run() is followed step by step: position names the step it is about to
   execute. *)

\* the classes of exceptions.py that derive from AnalyzerError
AnalyzerErrors ==
    {"AnalyzerError", "DataFetchError", "DataValidationError",
     "InsufficientDataError", "SignalDetectionError", "SymbolError"}

\* run(): except AnalyzerError: raise; except Exception: raise AnalyzerError
RunRaises(exc) == IF exc \in AnalyzerErrors THEN exc ELSE "AnalyzerError"

StepResult(name, success) == [name |-> name, success |-> success]

\* the statement of run() that follows a step
AfterStep(name) ==
    IF name = "Fetch Data" /\ ~params.skip_indicators THEN "Calculate Indicators"
    ELSE IF name \in {"Fetch Data", "Calculate Indicators"} /\ ~params.skip_signals
    THEN "Detect Signals"
    ELSE IF name # "AI Analysis" /\ params.enable_ai THEN "AI Analysis"
    ELSE "Complete"

\* step_handler's wrapper: [steps, position, raised] after a step that let
\* exc escape ("none": it returned)
step_handler(name, fatal, exc) ==
    [steps |-> Append(steps, StepResult(name, exc = "none")),
     position |-> IF exc # "none" /\ fatal THEN "done" ELSE AfterStep(name),
     raised |-> IF exc # "none" /\ fatal THEN RunRaises(exc) ELSE "none"]

\* the analyzer create_ai_analyzer() returns
AIAnalyzer == [analyzer |-> "ai"]

\* what create_ai_analyzer() and ai_analyzer.analyze() may do
AiOutcomes == {"unavailable", "ok", "Exception"}

\* _step_ai_analysis(): [ai_analyzer, exc, ai_result]
_step_ai_analysis(outcome) ==
    LET ai_analyzer == IF _ai_analyzer = NoResult /\ params.enable_ai
                       THEN IF outcome = "unavailable" THEN NoResult
                            ELSE AIAnalyzer
                       ELSE _ai_analyzer
    IN  IF ai_analyzer = NoResult
        THEN [ai_analyzer |-> ai_analyzer, exc |-> "none", ai_result |-> _ai_result]
        ELSE IF analysis = NoResult
        THEN [ai_analyzer |-> ai_analyzer, exc |-> "AnalyzerError",
              ai_result |-> _ai_result]
        ELSE IF outcome = "Exception"
        THEN [ai_analyzer |-> ai_analyzer, exc |-> "Exception",
              ai_result |-> _ai_result]
        ELSE [ai_analyzer |-> ai_analyzer, exc |-> "none",
              ai_result |-> [symbol |-> "SYM", signals |-> analysis.signals]]

pipelineFrame == <<detectors, df, quality_min, qualVars, scoreVars,
                   market_data, result_table, calculated, detVars, volumes,
                   sharedVars, enrichVars,
    multiVars,
    providerVars,
    cacheVars>>

\* AnalysisPipeline(symbol, skip_indicators=..., skip_signals=..., enable_ai=...)
\* followed by the call of run()
InitPipeline ==
    /\ CacheIdle
    /\ ProviderIdle
    /\ MultiIdle
    /\ QualityIdle
    /\ ScoreIdle
    /\ DetectorsIdle
    /\ SharedIdle
    /\ EnrichIdle
    /\ AnalyzerIdle
    /\ detectors = <<>>
    /\ df = [empty |-> TRUE, columns |-> {}]
    /\ quality_min = DefaultMinQuality
    /\ invoked = <<>>
    /\ all_signals = <<>>
    /\ raised = "none"
    /\ aggregation = NoResult
    /\ quality_result = NoResult
    /\ analysis = NoResult
    /\ last_call = "none"
    /\ group = _create_indicator_group("comprehensive")
    /\ market_data = NoResult
    /\ result_table = NoResult
    /\ calculated = <<>>
    /\ closes \in AnalyzerSeries
    /\ volumes = <<>>
    /\ params \in [skip_indicators : BOOLEAN, skip_signals : BOOLEAN,
                   enable_ai : BOOLEAN]
    /\ steps = <<>>
    /\ _ai_analyzer = NoResult
    /\ _ai_result = NoResult
    /\ position = "Fetch Data"
    /\ returned = NoResult

\* self._step_fetch_data()
StepFetchData(outcome) ==
    /\ position = "Fetch Data"
    /\ \E r \in {fetch_data(outcome, MarketRows(closes), _data)} :
       \E s \in {step_handler("Fetch Data", TRUE, r.raised)} :
           /\ last_call' = "fetch_data"
           /\ _data' = r.data
           /\ trace' = Called("fetch_data", r.raised)
           /\ steps' = s.steps
           /\ position' = s.position
           /\ raised' = s.raised
    /\ UNCHANGED <<invoked, all_signals, aggregation, quality_result, analysis,
                   group, closes, params, _ai_analyzer, _ai_result, returned,
                   pipelineFrame>>

\* self._step_calculate_indicators()
StepCalculateIndicators ==
    /\ position = "Calculate Indicators"
    /\ \E r \in {calculate_indicators(group, _data)} :
       \E s \in {step_handler("Calculate Indicators", TRUE, r.raised)} :
           /\ last_call' = "calculate_indicators"
           /\ _data' = r.data
           /\ trace' = Called("calculate_indicators", r.raised)
           /\ steps' = s.steps
           /\ position' = s.position
           /\ raised' = s.raised
    /\ UNCHANGED <<invoked, all_signals, aggregation, quality_result, analysis,
                   group, closes, params, _ai_analyzer, _ai_result, returned,
                   pipelineFrame>>

\* self._step_detect_signals()
StepDetectSignals ==
    /\ position = "Detect Signals"
    /\ \E r \in {MultiTimeframeAnalyzer_detect_signals(_data)} :
       \E s \in {step_handler("Detect Signals", TRUE, r.raised)} :
           /\ last_call' = "detect_signals"
           /\ invoked' = IF r.run = NoResult THEN invoked ELSE r.run.invoked
           /\ all_signals' = IF r.run = NoResult THEN all_signals
                             ELSE r.run.all_signals
           /\ aggregation' = IF r.run = NoResult THEN aggregation ELSE r.run.result
           /\ quality_result' = IF r.raised = "none" THEN r.quality_result
                                ELSE quality_result
           /\ analysis' = IF r.raised = "none" THEN r.result ELSE analysis
           /\ trace' = Called("detect_signals", r.raised)
           /\ steps' = s.steps
           /\ position' = s.position
           /\ raised' = s.raised
    /\ UNCHANGED <<_data, group, closes, params, _ai_analyzer, _ai_result,
                   returned, pipelineFrame>>

\* self._step_ai_analysis(), wrapped with fatal=False
StepAIAnalysis(outcome) ==
    /\ position = "AI Analysis"
    /\ \E r \in {_step_ai_analysis(outcome)} :
       \E s \in {step_handler("AI Analysis", FALSE, r.exc)} :
           /\ last_call' = "_step_ai_analysis"
           /\ _ai_analyzer' = r.ai_analyzer
           /\ _ai_result' = r.ai_result
           /\ steps' = s.steps
           /\ position' = s.position
           /\ raised' = s.raised
    /\ UNCHANGED <<invoked, all_signals, aggregation, quality_result, analysis,
                   group, closes, params, _data, trace, returned, pipelineFrame>>

\* the end of run(): the EnhancedAnalysisResult, or "No result generated"
Complete ==
    /\ position = "Complete"
    /\ position' = "done"
    /\ last_call' = "run"
    /\ IF analysis = NoResult
       THEN /\ raised' = "AnalyzerError"
            /\ UNCHANGED returned
       ELSE /\ raised' = "none"
            /\ returned' = [base_result |-> analysis, ai_result |-> _ai_result,
                            steps_total |-> Len(steps)]
    /\ UNCHANGED <<invoked, all_signals, aggregation, quality_result, analysis,
                   group, closes, params, _data, trace, steps, _ai_analyzer,
                   _ai_result, pipelineFrame>>

NextPipeline ==
    \/ \E outcome \in FetchOutcomes : StepFetchData(outcome)
    \/ StepCalculateIndicators
    \/ StepDetectSignals
    \/ \E outcome \in AiOutcomes : StepAIAnalysis(outcome)
    \/ Complete

SpecPipeline == InitPipeline /\ [][NextPipeline]_vars

\* the place of a step in the fixed order
StepOrder(name) ==
    CASE name = "Fetch Data" -> 1
      [] name = "Calculate Indicators" -> 2
      [] name = "Detect Signals" -> 3
      [] name = "AI Analysis" -> 4

\* C25: the steps recorded in self.steps are in the order Fetch Data,
\* Calculate Indicators, Detect Signals, AI Analysis, each once; a failed
\* step among the first three is the last one recorded and run() ends with
\* an AnalyzerError; a failed AI Analysis step does not abort the run, which
\* returns the base result with ai_result unset.
C25_StepsInOrderAndAiNeverAborts ==
    /\ \A i, j \in 1..Len(steps) :
           i < j => StepOrder(steps[i].name) < StepOrder(steps[j].name)
    /\ \A i \in 1..Len(steps) :
           (~steps[i].success /\ steps[i].name # "AI Analysis") =>
               /\ i = Len(steps)
               /\ position = "done"
               /\ raised \in AnalyzerErrors
    /\ (/\ position = "done"
        /\ steps # <<>>
        /\ steps[Len(steps)] = StepResult("AI Analysis", FALSE)) =>
           /\ raised = "none"
           /\ returned # NoResult
           /\ returned.base_result = analysis
           /\ returned.ai_result = NoResult

-----------------------------------------------------------------------------
(* signals/validator.py: ContradictionDetector.resolve_contradictions on
   lists that mix both directions at two confidences *)

MaxConflict == 3

Directional(name, category, strength, conf) ==
    Signal(name, category, strength, name, "float", conf, FALSE, "")

ConflictPool ==
    {Directional("MACD BULL 0.6", "MACD", BULLISH, 60),
     Directional("MACD BULL 0.9", "MACD", STRONG_BULLISH, 90),
     Directional("MACD BEAR 0.6", "MACD", BEARISH, 60),
     Directional("MACD BEAR 0.9", "MACD", STRONG_BEARISH, 90),
     Directional("MACD FLAT", "MACD", NEUTRAL, 90),
     Directional("DEATH CROSS", "MA_CROSS", BEARISH, 90),
     Directional("RSI OVERSOLD", "RSI", BULLISH, 60)}

ConflictLists == UNION {[1..n -> ConflictPool] : n \in 0..MaxConflict}

InitResolve ==
    /\ AggregatorIdle
    /\ ScoreIdle
    /\ last_call = "none"
    /\ input \in ConflictLists
    /\ args = NoResult
    /\ output = <<>>
    /\ LaterIdle

\* resolve_contradictions(input, resolution="keep_all")
KeepAll ==
    /\ last_call' = "resolve_contradictions"
    /\ args' = [resolution |-> "keep_all"]
    /\ output' = resolve_contradictions(input, "keep_all")
    /\ UNCHANGED <<input, idleInQuality>>

NextResolve == ResolveContradictions \/ KeepAll

SpecResolve == InitResolve /\ [][NextResolve]_vars

\* the directional signals of a category, by index
DirectionalIn(signals, category) ==
    {i \in 1..Len(signals) :
        /\ signals[i].category = category
        /\ is_bullish(signals[i]) \/ is_bearish(signals[i])}

\* the directional signals of a category whose confidence no other reaches
TopOf(signals, category) ==
    {i \in DirectionalIn(signals, category) :
        \A j \in DirectionalIn(signals, category) :
            signals[j].confidence <= signals[i].confidence}

\* the categories in which resolve_contradictions removes signals
Resolved(signals) ==
    {c \in EXCLUSIVE_CATEGORIES :
        /\ \E i \in DirectionalIn(signals, c) : is_bullish(signals[i])
        /\ \E i \in DirectionalIn(signals, c) : is_bearish(signals[i])}

Kept(s) == \E k \in 1..Len(output) : output[k] = s

Resolving ==
    /\ last_call = "resolve_contradictions"
    /\ args = [resolution |-> "remove_lower_confidence"]

-----------------------------------------------------------------------------
(* analyzer/pipeline.py: analyze_multiple, _analyze_sequential and
   _analyze_parallel.  Each analyze_symbol call builds its own pipeline,
   analyzer and provider; what it does is its outcome: it raises or it
   returns a result. *)

MaxSymbols == 3
MaxWorkers == 2

SymbolNames == {"SPY", "QQQ"}

SymbolLists == UNION {[1..n -> SymbolNames] : n \in 0..MaxSymbols}

\* the EnhancedAnalysisResult of the call made for the i-th listed symbol
ResultOf(i) == [symbol |-> params.symbols[i], call |-> i]

\* a worker that reports every failure under the first symbol
_analyze_one_misfiled(i, raises) ==
    <<IF raises THEN params.symbols[1] ELSE params.symbols[i],
      IF raises THEN PyNone ELSE ResultOf(i)>>

\* _analyze_one(symbol): (symbol, result), or (symbol, None) when
\* analyze_symbol raised
_analyze_one(i, raises) ==
    <<params.symbols[i], IF raises THEN PyNone ELSE ResultOf(i)>>

\* results[symbol] = result
SetItem(dict, key, value) ==
    [k \in DOMAIN dict \cup {key} |-> IF k = key THEN value ELSE dict[k]]

\* if len(symbols) == 1 or not parallel: sequential
UsesThreads == Len(params.symbols) > 1 /\ params.parallel

InState(state) == {i \in 1..Len(calls) : calls[i].state = state}

multiFrame == <<detectors, df, quality_min, invoked, all_signals, raised,
                aggregation, quality_result, analysis, qualVars, scoreVars,
                indVars, detVars, seriesVars, sharedVars, enrichVars,
                analyzerVars, pipelineVars,
    providerVars,
    cacheVars>>

\* analyze_multiple(symbols, parallel=..., max_workers=...) is called
InitMultiple ==
    /\ CacheIdle
    /\ ProviderIdle
    /\ AggregatorIdle
    /\ QualityIdle
    /\ ScoreIdle
    /\ IndicatorsIdle
    /\ DetectorsIdle
    /\ SeriesIdle
    /\ SharedIdle
    /\ EnrichIdle
    /\ AnalyzerIdle
    /\ PipelineIdle
    /\ last_call = "none"
    /\ params \in [symbols : SymbolLists, parallel : BOOLEAN,
                   max_workers : 1..MaxWorkers]
    /\ calls = List([i \in 1..Len(params.symbols) |->
                        [state |-> "queued", raised |-> FALSE, value |-> <<>>]])
    /\ results = <<>>

\* one iteration of the loop of _analyze_sequential
SequentialIteration(raises) ==
    /\ last_call = "none"
    /\ ~UsesThreads
    /\ InState("queued") # {}
    /\ \E i \in InState("queued") :
           /\ \A j \in InState("queued") : i <= j
           /\ \E entry \in {_analyze_one(i, raises)} :
                  /\ calls' = [calls EXCEPT ![i] = [state |-> "collected",
                                                    raised |-> raises,
                                                    value |-> entry]]
                  /\ results' = SetItem(results, entry[1], entry[2])
    /\ UNCHANGED <<last_call, params, multiFrame>>

\* a worker thread of the executor takes the next submitted call
StartWorker ==
    /\ last_call = "none"
    /\ UsesThreads
    /\ Cardinality(InState("running")) < params.max_workers
    /\ \E i \in InState("queued") :
           /\ \A j \in InState("queued") : i <= j
           /\ calls' = [calls EXCEPT ![i].state = "running"]
    /\ UNCHANGED <<results, last_call, params, multiFrame>>

\* a worker thread returns from _analyze_one
FinishWorker(raises) ==
    /\ last_call = "none"
    /\ UsesThreads
    /\ \E i \in InState("running") :
           calls' = [calls EXCEPT ![i] = [state |-> "done", raised |-> raises,
                                          value |-> _analyze_one(i, raises)]]
    /\ UNCHANGED <<results, last_call, params, multiFrame>>

\* one iteration of the as_completed loop, in the calling thread
CollectResult ==
    /\ last_call = "none"
    /\ UsesThreads
    /\ \E i \in InState("done") :
           /\ calls' = [calls EXCEPT ![i].state = "collected"]
           /\ results' = SetItem(results, calls[i].value[1], calls[i].value[2])
    /\ UNCHANGED <<last_call, params, multiFrame>>

\* return results
ReturnResults ==
    /\ last_call = "none"
    /\ InState("collected") = 1..Len(calls)
    /\ last_call' = "analyze_multiple"
    /\ UNCHANGED <<calls, results, params, multiFrame>>

NextMultiple ==
    \/ \E raises \in BOOLEAN : SequentialIteration(raises)
    \/ StartWorker
    \/ \E raises \in BOOLEAN : FinishWorker(raises)
    \/ CollectResult
    \/ ReturnResults

SpecMultiple == InitMultiple /\ [][NextMultiple]_vars

\* the calls made for a symbol
CallsFor(symbol) == {i \in 1..Len(calls) : params.symbols[i] = symbol}

\* C27: the mapping analyze_multiple returns has exactly the listed symbols
\* as keys; a symbol is mapped to the result of a call made for it, or to
\* None when that call raised, whatever the other calls did and in whatever
\* order the worker threads ran and finished; a symbol listed once is mapped
\* to the outcome of its one call.
C27_EverySymbolItsOwnEntry ==
    last_call = "analyze_multiple" =>
        /\ DOMAIN results = {params.symbols[i] : i \in 1..Len(params.symbols)}
        /\ \A symbol \in DOMAIN results :
               \E i \in CallsFor(symbol) :
                   results[symbol] = IF calls[i].raised THEN PyNone
                                     ELSE ResultOf(i)

\* two symbols were analysed by worker threads, the first call raised and the
\* second returned: the first symbol is mapped to None, the second to its
\* result
C27_Witness ==
    /\ last_call = "analyze_multiple"
    /\ UsesThreads
    /\ params.symbols = <<"SPY", "QQQ">>
    /\ calls[1].raised
    /\ ~calls[2].raised
    /\ results["SPY"] = PyNone
    /\ results["QQQ"] = ResultOf(2)

-----------------------------------------------------------------------------
(* data/provider.py: YFinanceProvider.  fetch() is followed attempt by
   attempt; what yfinance does in an attempt is its outcome: data, an empty
   table, or an exception with a message. *)

MAX_RETRIES == 3
MaxClock == 1
MaxEntries == 3

\* StartsWith(s, prefix): s.startswith(prefix)
StartsWith(s, prefix) == Prefix(s, Len(prefix)) = prefix

\* _make_cache_key(symbol, interval, period)
_make_cache_key(symbol, interval, period) ==
    UpperOf(symbol) \o "_" \o interval \o "_" \o period

valid_intervals == {"1m", "2m", "5m", "15m", "30m", "1h", "1d", "1wk", "1mo"}

\* _validate_inputs: the exception raised, or "none"
_validate_inputs(symbol, interval, period) ==
    IF symbol = "" \/ Len(symbol) > 10 THEN "SymbolError"
    \* DataFetchError(..., reason=...): no such parameter
    ELSE IF interval \notin valid_intervals THEN "TypeError"
    ELSE "none"

\* the dict without some keys
Remove(dict, keys) == [k \in DOMAIN dict \ keys |-> dict[k]]

\* _get_cached: [data, cache]; an expired entry is deleted
_get_cached(key) ==
    IF key \notin DOMAIN cache THEN [data |-> NoResult, cache |-> cache]
    ELSE IF clock - cache[key].cached_at > params.cache_ttl
    THEN [data |-> NoResult, cache |-> Remove(cache, {key})]
    ELSE [data |-> cache[key].data, cache |-> cache]

\* str(e) of the DataFetchError raised for an empty table
NoDataReturned(symbol, interval, period) ==
    "[DATA_FETCH_ERROR] No data returned for " \o symbol \o " | Details: symbol="
        \o symbol \o ", interval=" \o interval \o ", period=" \o period

\* messages of the exceptions yfinance raises
ErrorMessages ==
    {"No data found, symbol may be delisted", "Invalid ticker",
     "Connection timed out"}

AttemptOutcomes == {"data", "empty"} \cup ErrorMessages

\* "No data found" in error_msg or "Invalid" in error_msg
SymbolIsInvalid(error_msg) ==
    Contains(error_msg, "No data found") \/ Contains(error_msg, "Invalid")

\* one pass of the loop of _fetch_with_retry, and the raise that follows the
\* last one: [done, raised, error]
_fetch_with_retry(number, outcome) ==
    LET error_msg == IF outcome = "empty"
                     THEN NoDataReturned(request.symbol, request.interval,
                                         request.period)
                     ELSE outcome
    IN  IF outcome = "data" THEN [done |-> TRUE, raised |-> "none", error |-> "none"]
        ELSE IF SymbolIsInvalid(error_msg)
        THEN [done |-> TRUE, raised |-> "SymbolError", error |-> error_msg]
        ELSE IF number < MAX_RETRIES
        THEN [done |-> FALSE, raised |-> "none", error |-> error_msg]
        \* DataFetchError(..., reason=...): no such parameter
        ELSE [done |-> TRUE, raised |-> "TypeError", error |-> error_msg]

\* clear_cache(symbol): the cache it leaves; "None" for no symbol
clear_cache(symbol) ==
    IF symbol \notin {"None", ""}
    THEN Remove(cache, {k \in DOMAIN cache : StartsWith(k, UpperOf(symbol))})
    ELSE <<>>

ProviderSymbols == {"A", "AAPL", "msft"}
ProviderIntervals == {"1d", "1h"}
ProviderPeriods == {"1y"}

providerFrame == <<detectors, df, quality_min, invoked, all_signals,
                   aggregation, quality_result, analysis, qualVars, scoreVars,
                   indVars, detVars, seriesVars, sharedVars, enrichVars,
                   analyzerVars, pipelineVars, multiVars,
    cacheVars>>

\* YFinanceProvider(use_cache=..., cache_ttl_minutes=...)
InitProvider ==
    /\ CacheIdle
    /\ AggregatorIdle
    /\ QualityIdle
    /\ ScoreIdle
    /\ IndicatorsIdle
    /\ DetectorsIdle
    /\ SeriesIdle
    /\ SharedIdle
    /\ EnrichIdle
    /\ AnalyzerIdle
    /\ PipelineIdle
    /\ MultiIdle
    /\ last_call = "none"
    /\ params \in [use_cache : BOOLEAN, cache_ttl : {0}]
    /\ cache = <<>>
    /\ request = NoResult
    /\ pending = FALSE
    /\ attempt = 0
    /\ last_error = "none"
    /\ clock = 0
    /\ response = NoResult

\* fetch(symbol, interval, period), up to the first attempt
Fetch(symbol, interval, period) ==
    /\ ~pending
    /\ Cardinality(DOMAIN cache) < MaxEntries
    /\ last_call' = "fetch"
    /\ request' = [symbol |-> symbol, interval |-> interval, period |-> period]
    /\ attempt' = 0
    /\ last_error' = "none"
    /\ \E invalid \in {_validate_inputs(symbol, interval, period)} :
       \E cached \in {IF params.use_cache
                      THEN _get_cached(_make_cache_key(symbol, interval, period))
                      ELSE [data |-> NoResult, cache |-> cache]} :
           IF invalid # "none"
           THEN /\ raised' = invalid
                /\ response' = NoResult
                /\ UNCHANGED <<cache, pending>>
           ELSE /\ raised' = "none"
                /\ cache' = cached.cache
                /\ response' = cached.data
                /\ pending' = (cached.data = NoResult)
    /\ UNCHANGED <<params, clock, providerFrame>>

\* one attempt of _fetch_with_retry; the last one ends fetch()
Attempt(outcome) ==
    /\ pending
    /\ \E r \in {_fetch_with_retry(attempt + 1, outcome)} :
       \E key \in {_make_cache_key(request.symbol, request.interval,
                                   request.period)} :
       \E fetched \in {[key |-> key, fetched_at |-> clock]} :
           /\ attempt' = attempt + 1
           /\ last_error' = r.error
           /\ pending' = ~r.done
           /\ raised' = r.raised
           /\ response' = IF outcome = "data" THEN fetched ELSE NoResult
           /\ cache' = IF outcome = "data" /\ params.use_cache
                       THEN SetItem(cache, key, [data |-> fetched,
                                                 cached_at |-> clock])
                       ELSE cache
    /\ UNCHANGED <<last_call, request, params, clock, providerFrame>>

\* clear_cache(symbol), clear_cache()
ClearCache(symbol) ==
    /\ ~pending
    /\ last_call' = "clear_cache"
    /\ request' = [symbol |-> symbol]
    /\ raised' = "none"
    /\ cache' = clear_cache(symbol)
    /\ UNCHANGED <<attempt, last_error, pending, response, params, clock,
                   providerFrame>>

\* time passes
Tick ==
    /\ clock < MaxClock
    /\ clock' = clock + 1
    /\ UNCHANGED <<cache, request, pending, attempt, last_error, response,
                   last_call, raised, params, providerFrame>>

NextProvider ==
    \/ \E symbol \in ProviderSymbols \cup {""},
          interval \in ProviderIntervals \cup {"3d"},
          period \in ProviderPeriods : Fetch(symbol, interval, period)
    \/ \E outcome \in AttemptOutcomes : Attempt(outcome)
    \/ \E symbol \in ProviderSymbols \cup {"None"} : ClearCache(symbol)
    \/ Tick

SpecProvider == InitProvider /\ [][NextProvider]_vars

\* _fetch_with_retry has ended
RetryEnded == last_call = "fetch" /\ ~pending /\ attempt > 0

\* C28: _fetch_with_retry makes at most MAX_RETRIES attempts and returns at
\* the attempt that yields data; an attempt whose error message contains
\* "No data found" or "Invalid" ends it at once with SymbolError; when all
\* attempts failed it ends with DataFetchError; a fetch that fails stores
\* nothing in the cache.
C28_RetriesEndWithDataFetchError ==
    /\ [](/\ attempt <= MAX_RETRIES
          /\ RetryEnded =>
                 /\ last_error = "none" => raised = "none" /\ response # NoResult
                 /\ (last_error # "none" /\ SymbolIsInvalid(last_error)) =>
                        raised = "SymbolError"
                 /\ (last_error # "none" /\ ~SymbolIsInvalid(last_error)) =>
                        attempt = MAX_RETRIES /\ raised = "DataFetchError")
    /\ [][(last_call' = "fetch" /\ raised' # "none") =>
              /\ DOMAIN cache' \subseteq DOMAIN cache
              /\ \A k \in DOMAIN cache' : cache'[k] = cache[k]]_vars

\* the keys under which fetch() stores the data of a symbol
KeysOf(symbol) ==
    {k \in DOMAIN cache :
        \E interval \in ProviderIntervals, period \in ProviderPeriods :
            k = _make_cache_key(symbol, interval, period)}

\* C30: clear_cache(symbol) removes the entries stored for that symbol, under
\* any interval and period, and leaves every other entry as it was;
\* clear_cache() removes all entries.
C30_ClearRemovesOnlyTheSymbol ==
    [][last_call' = "clear_cache" =>
           IF request'.symbol = "None" THEN cache' = <<>>
           ELSE cache' = Remove(cache, KeysOf(request'.symbol))]_vars

-----------------------------------------------------------------------------
(* analyzer/pipeline.py: AnalysisCache.  The dict is the list of its items
   in insertion order, which is the order min() and iteration follow. *)

MaxSize == 2

\* the keys of a dict
Keys(items) == {items[i].key : i \in 1..Len(items)}

\* the position of a key in a dict that has it
IndexOf(items, key) == CHOOSE i \in 1..Len(items) : items[i].key = key

\* del dict[key]
Del(items, key) ==
    LET Other(item) == item.key # key IN SelectSeq(items, Other)

\* dict[key] = (timestamp, result): a new key goes last, a known key keeps
\* its place
Store(items, key, timestamp, result) ==
    LET item == [key |-> key, timestamp |-> timestamp, result |-> result]
    IN  IF key \in Keys(items)
        THEN [items EXCEPT ![IndexOf(items, key)] = item]
        ELSE Append(items, item)

\* min(self._cache, key=lambda k: self._cache[k][0]): the first key with the
\* least timestamp
oldest_key(items) ==
    LET least == CHOOSE i \in 1..Len(items) :
                     /\ \A j \in 1..Len(items) :
                            items[i].timestamp <= items[j].timestamp
                     /\ \A j \in 1..(i - 1) :
                            items[j].timestamp > items[i].timestamp
    IN  items[least].key

\* AnalysisCache.set: the dict it leaves
AnalysisCache_set(items, key, result) ==
    Store(IF Len(items) >= params.max_size
          THEN Del(items, oldest_key(items)) ELSE items,
          key, clock, result)

\* AnalysisCache.get: [result, cache]; an expired entry is deleted
AnalysisCache_get(items, key) ==
    IF key \notin Keys(items) THEN [result |-> NoResult, cache |-> items]
    ELSE IF clock - items[IndexOf(items, key)].timestamp > params.ttl_seconds
    THEN [result |-> NoResult, cache |-> Del(items, key)]
    ELSE [result |-> items[IndexOf(items, key)].result, cache |-> items]

CacheSymbols == {"SPY", "qqq", "IWM"}

\* the EnhancedAnalysisResult of an analysis of a symbol made now
AnalysedNow(symbol) == [symbol |-> symbol, analysed_at |-> clock]

cacheFrame == <<detectors, df, quality_min, invoked, all_signals,
                aggregation, quality_result, analysis, qualVars, scoreVars,
                indVars, detVars, seriesVars, sharedVars, enrichVars,
                analyzerVars, pipelineVars, multiVars, cache, pending,
                attempt, last_error>>

\* AnalysisCache(ttl_seconds=..., max_size=...)
InitCache ==
    /\ AggregatorIdle
    /\ QualityIdle
    /\ ScoreIdle
    /\ IndicatorsIdle
    /\ DetectorsIdle
    /\ SeriesIdle
    /\ SharedIdle
    /\ EnrichIdle
    /\ AnalyzerIdle
    /\ PipelineIdle
    /\ MultiIdle
    /\ ProviderIdle
    /\ last_call = "none"
    /\ params \in [ttl_seconds : {0, MaxClock}, max_size : 1..MaxSize]
    /\ _cache = <<>>

\* cache.set(symbol, "1d", result)
SetEntry(symbol) ==
    /\ last_call' = "set"
    /\ request' = [symbol |-> symbol]
    /\ raised' = "none"
    /\ response' = NoResult
    /\ _cache' = AnalysisCache_set(_cache, _cache_key(symbol, "1d"),
                                   AnalysedNow(symbol))
    /\ UNCHANGED <<clock, params, cacheFrame>>

\* cache.get(symbol, "1d")
CacheGet(symbol) ==
    /\ last_call' = "get"
    /\ request' = [symbol |-> symbol]
    /\ raised' = "none"
    /\ \E r \in {AnalysisCache_get(_cache, _cache_key(symbol, "1d"))} :
           /\ response' = r.result
           /\ _cache' = r.cache
    /\ UNCHANGED <<clock, params, cacheFrame>>

\* cache.get_or_analyze(symbol): analyze_symbol returns or raises
GetOrAnalyze(symbol, raises) ==
    /\ last_call' = "get_or_analyze"
    /\ request' = [symbol |-> symbol]
    /\ \E key \in {_cache_key(symbol, "1d")} :
       \E r \in {AnalysisCache_get(_cache, key)} :
           IF r.result # NoResult
           THEN /\ raised' = "none"
                /\ response' = r.result
                /\ _cache' = r.cache
           ELSE IF raises
           THEN /\ raised' = "AnalyzerError"
                /\ response' = NoResult
                /\ _cache' = r.cache
           ELSE /\ raised' = "none"
                /\ response' = AnalysedNow(symbol)
                /\ _cache' = AnalysisCache_set(r.cache, key, AnalysedNow(symbol))
    /\ UNCHANGED <<clock, params, cacheFrame>>

\* cache.clear()
CacheClear ==
    /\ last_call' = "clear"
    /\ request' = NoResult
    /\ raised' = "none"
    /\ response' = NoResult
    /\ _cache' = <<>>
    /\ UNCHANGED <<clock, params, cacheFrame>>

\* time passes
CacheTick ==
    /\ clock < MaxClock + 1
    /\ clock' = clock + 1
    /\ UNCHANGED <<_cache, request, response, last_call, raised, params,
                   cacheFrame>>

NextCache ==
    \/ \E symbol \in CacheSymbols : SetEntry(symbol)
    \/ \E symbol \in CacheSymbols : CacheGet(symbol)
    \/ \E symbol \in CacheSymbols, raises \in BOOLEAN : GetOrAnalyze(symbol, raises)
    \/ CacheClear
    \/ CacheTick

SpecCache == InitCache /\ [][NextCache]_vars

\* C29: the cache never holds more than max_size entries, and a set call
\* removes the entry of another key only when the key it stores is not yet
\* cached and the cache is full; the entry removed is then the one stored
\* the longest ago.
C29_SetEvictsOnlyForANewKey ==
    /\ [](Len(_cache) <= params.max_size)
    /\ [][last_call' = "set" =>
              \A key \in Keys(_cache) \ Keys(_cache') :
                  /\ _cache_key(request'.symbol, "1d") \notin Keys(_cache)
                  /\ Len(_cache) + 1 > params.max_size
                  /\ \A i \in 1..Len(_cache) :
                         _cache[IndexOf(_cache, key)].timestamp
                             <= _cache[i].timestamp]_vars

====
